---------------------------- MODULE Spec2Model ----------------------------
(***************************************************************************)
(* The zebra client library (lib/zclient.c): connection life cycle with    *)
(* bounded back-off, the on-connect handshake, the redistribute            *)
(* bookkeeping, and the framed non-blocking reader, on both event          *)
(* back-ends (callback threads and the qpselect nexus).                    *)
(***************************************************************************)
EXTENDS Integers, Sequences, FiniteSets, TLC

(***************************************************************************)
(* Bounds of the model.                                                    *)
(***************************************************************************)
\* number of route types (the program's ZEBRA_ROUTE_MAX, scaled down)
ZEBRA_ROUTE_MAX == 3
\* zclient_init is called with redist_default in 0..MaxRedistDefault
MaxRedistDefault == 1
\* descriptors the socket call can return: 0..MaxFd
MaxFd == 1
\* the failure counter is followed up to this value
MaxFail == 11
\* callers send while fewer than this many frames are queued in the write buffer
MaxPending == 1
\* frames the server sends on one connection
MaxInFrames == 2
\* capacity of the read stream (the program's ZEBRA_MAX_PACKET_SIZ, scaled down)
ZEBRA_MAX_PACKET_SIZ == 8
\* largest payload the server puts in a well-formed frame
MaxPayload == 3
\* a write that stops inside a frame stops within its first MaxCut bytes
MaxCut == 1
\* a handler that stops and starts the handle is followed up to this many
\* read threads of the handle in the master
MaxReadThreads == 2
\* most entries of api->nexthop and of api->ifindex
MaxNexthops == 1
MaxIfindexes == 1

(***************************************************************************)
(* Protocol constants (zebra.h / zclient.h).                               *)
(***************************************************************************)
ZEBRA_HEADER_SIZE == 6
ZEBRA_HEADER_MARKER == 255
ZSERV_VERSION == 2

ZEBRA_INTERFACE_ADD == 1
ZEBRA_INTERFACE_UP == 5
ZEBRA_IPV4_ROUTE_ADD == 7
ZEBRA_REDISTRIBUTE_ADD == 11
ZEBRA_REDISTRIBUTE_DELETE == 12
ZEBRA_REDISTRIBUTE_DEFAULT_ADD == 13
ZEBRA_REDISTRIBUTE_DEFAULT_DELETE == 14
ZEBRA_HELLO == 23
ZEBRA_ROUTER_ID_ADD == 24
ZEBRA_ROUTER_ID_UPDATE == 26

\* The commands zclient_read has a case for.
KnownCommands == {ZEBRA_ROUTER_ID_UPDATE, ZEBRA_INTERFACE_ADD, ZEBRA_INTERFACE_UP}
\* The handler slots the embedder filled in (interface_up is left null).
Installed == {ZEBRA_ROUTER_ID_UPDATE, ZEBRA_INTERFACE_ADD}

RouteTypes == 0 .. (ZEBRA_ROUTE_MAX - 1)

Min(a, b) == IF a < b THEN a ELSE b

(***************************************************************************)
(* stream.c: a stream is its data[0..endp), a sequence of bytes.           *)
(***************************************************************************)
stream_putw(s, w) == s \o << (w \div 256) % 256, w % 256 >>

stream_putc(s, c) == Append(s, c % 256)

stream_putw_at(s, pos, w) ==
  [i \in 1 .. Len(s) |->
      IF i = pos + 1 THEN (w \div 256) % 256
      ELSE IF i = pos + 2 THEN w % 256
      ELSE s[i]]

stream_getw_at(s, pos) == s[pos + 1] * 256 + s[pos + 2]

stream_getc_at(s, pos) == s[pos + 1]

(***************************************************************************)
(* The state.                                                               *)
(***************************************************************************)
VARIABLES
  zclient_nexus,  \* TRUE: the qpselect nexus back-end; FALSE: callback threads
  zclient,        \* struct zclient
  conn            \* the peer's end of the connection and what crossed it

vars == << zclient_nexus, zclient, conn >>

\* struct thread * of t_connect: NULL, or the callback and its delay
NoThread == [fn |-> "NULL", secs |-> 0]

\* the qtimer: unset, or the callback and its delay from now
NoTimer == [active |-> FALSE, fn |-> "NULL", secs |-> 0]

\* the qps_file: fd -1 when not in the selection; modes: enabled interests
NoFile == [fd |-> -1, modes |-> {}]

\* the connection: the bytes on their way to the client, the frames the
\* server sent (srv) and the frames zclient_read dispatched (disp) on it
NoConn == [net_in |-> << >>, srv |-> << >>, disp |-> << >>]

\* what one operation did: its outcome, the frames it passed to the write
\* buffer (tx), the bytes the write buffer passed to the socket (out), the
\* handler it ran
NoEv == [res |-> "", tx |-> << >>, out |-> << >>, handler |-> ""]

\* zclient_new (lines 55-75).  t_read, t_write and t_connect are the thread
\* pointers of the handle (set or NULL); master_read is the number of read
\* threads the thread master holds for the handle: thread_add_read adds one,
\* cancelling the one t_read points to or running one removes it.
zclient_new ==
  [enable |-> FALSE, sock |-> -1, fail |-> 0,
   redist |-> [t \in RouteTypes |-> FALSE], redist_default |-> 0,
   default_information |-> FALSE,
   ibuf |-> << >>, ibuf_size |-> ZEBRA_MAX_PACKET_SIZ, wb |-> << >>,
   t_read |-> FALSE, t_write |-> FALSE, t_connect |-> NoThread,
   master_read |-> 0,
   qf |-> NoFile, qtr |-> NoTimer]

\* The state the operations below work on: the handle (z), its output
\* stream (obuf), the connection (c), and the record of what the running
\* operation did (e).  obuf is not kept between steps: every sender resets it
\* before it builds its frame (stream_reset at lines 405, 421, 617, 679 and
\* 735), so what an earlier operation left in it is never read.
St == [z |-> zclient, obuf |-> << >>, c |-> conn, e |-> NoEv]

\* An operation begins: nothing sent, no handler run, no outcome yet.
Begin == St

\* Sequencing: R is a set of <<state, return value>>; F runs on each state.
Then(R, F(_)) == UNION { F(p[1]) : p \in R }

Ret(R, v) == { << p[1], v >> : p \in R }

(***************************************************************************)
(* Arming events.                                                           *)
(***************************************************************************)
\* the long interval taken one failure late
ConnectInterval_late(fail) == IF fail <= 3 THEN 10 ELSE 60

\* zclient->fail < 3 ? 10 : 60
ConnectInterval(fail) == IF fail < 3 THEN 10 ELSE 60

\* the cap taken one failure late
RetryAllowed_late(fail) == fail <= 10

\* if (zclient->fail >= 10) return;
RetryAllowed(fail) == fail < 10

zclient_event_t(event, s) ==
  CASE event = "ZLOOKUP_SCHEDULE" ->
         IF s.z.t_connect = NoThread
           THEN [s EXCEPT !.z.t_connect = [fn |-> "zlookup_connect_t", secs |-> 0]]
           ELSE s
    [] event = "ZCLIENT_SCHEDULE" ->
         IF s.z.t_connect = NoThread
           THEN [s EXCEPT !.z.t_connect = [fn |-> "zclient_connect_t", secs |-> 0]]
           ELSE s
    [] event = "ZCLIENT_CONNECT" ->
         IF ~RetryAllowed(s.z.fail) THEN s
         ELSE IF s.z.t_connect = NoThread
           THEN [s EXCEPT !.z.t_connect =
                   [fn |-> "zclient_connect_t", secs |-> ConnectInterval(s.z.fail)]]
           ELSE s
    [] event = "ZCLIENT_READ" ->
         [s EXCEPT !.z.t_read = TRUE, !.z.master_read = @ + 1]

zclient_event_r(event, s) ==
  CASE event = "ZLOOKUP_SCHEDULE" ->
         IF ~s.z.qtr.active
           THEN [s EXCEPT !.z.qtr =
                   [active |-> TRUE, fn |-> "zlookup_connect_r", secs |-> 0]]
           ELSE s
    [] event = "ZCLIENT_SCHEDULE" ->
         IF ~s.z.qtr.active
           THEN [s EXCEPT !.z.qtr =
                   [active |-> TRUE, fn |-> "zclient_connect_r", secs |-> 0]]
           ELSE s
    [] event = "ZCLIENT_CONNECT" ->
         IF ~RetryAllowed(s.z.fail) THEN s
         ELSE IF ~s.z.qtr.active
           THEN [s EXCEPT !.z.qtr =
                   [active |-> TRUE, fn |-> "zclient_connect_r",
                    secs |-> ConnectInterval(s.z.fail)]]
           ELSE s
    [] event = "ZCLIENT_READ" ->
         [s EXCEPT !.z.qf.modes = @ \cup {"read"}]

zclient_event(event, s) ==
  IF zclient_nexus THEN zclient_event_r(event, s) ELSE zclient_event_t(event, s)

\* write-readiness: qps_enable_mode / THREAD_WRITE_ON and their opposites
WriteOn(s) ==
  IF zclient_nexus THEN [s EXCEPT !.z.qf.modes = @ \cup {"write"}]
  ELSE [s EXCEPT !.z.t_write = TRUE]

\* the disarming of write-readiness that does nothing
WriteOff_keep(s) == s

WriteOff(s) ==
  IF zclient_nexus THEN [s EXCEPT !.z.qf.modes = @ \ {"write"}]
  ELSE [s EXCEPT !.z.t_write = FALSE]

(***************************************************************************)
(* Stop, init, reset.                                                       *)
(***************************************************************************)
\* the stop that leaves the write buffer as it is
zclient_stop_queued(s) ==
  LET off == [s EXCEPT !.z.t_read = FALSE,
                       !.z.master_read = IF s.z.t_read THEN @ - 1 ELSE @,
                       !.z.t_connect = NoThread, !.z.t_write = FALSE,
                       !.z.qf = NoFile, !.z.qtr = NoTimer,
                       !.z.ibuf = << >>, !.obuf = << >>]
  IN  IF s.z.sock >= 0
        THEN [off EXCEPT !.z.sock = -1, !.c = NoConn]
        ELSE off

\* the stop that leaves the read armed
zclient_stop_reading(s) ==
  LET off == [s EXCEPT !.z.t_connect = NoThread, !.z.t_write = FALSE,
                       !.z.qf.modes = @ \ {"write"}, !.z.qtr = NoTimer,
                       !.z.ibuf = << >>, !.obuf = << >>, !.z.wb = << >>]
  IN  IF s.z.sock >= 0
        THEN [off EXCEPT !.z.sock = -1, !.c = NoConn]
        ELSE off

zclient_stop(s) ==
  LET off == [s EXCEPT !.z.t_read = FALSE,
                       !.z.master_read = IF s.z.t_read THEN @ - 1 ELSE @,
                       !.z.t_connect = NoThread,
                       !.z.t_write = FALSE,
                       !.z.qf = NoFile, !.z.qtr = NoTimer,
                       !.z.ibuf = << >>, !.obuf = << >>, !.z.wb = << >>]
  IN  IF s.z.sock >= 0
        THEN [off EXCEPT !.z.sock = -1, !.c = NoConn]
        ELSE off

\* the initialisation that keeps the redistribution flags it finds
zclient_init_keeping(s, redist_default) ==
  zclient_event("ZCLIENT_SCHEDULE",
    [s EXCEPT !.z.enable = TRUE, !.z.sock = -1,
              !.z.redist[redist_default] = TRUE,
              !.z.fail = 0,
              !.z.redist_default = redist_default])

zclient_init(s, redist_default) ==
  zclient_event("ZCLIENT_SCHEDULE",
    [s EXCEPT !.z.enable = TRUE, !.z.sock = -1,
              !.z.redist = [t \in RouteTypes |-> t = redist_default],
              !.z.fail = 0,
              !.z.redist_default = redist_default,
              !.z.default_information = FALSE])

zclient_reset(s) == zclient_init(zclient_stop(s), s.z.redist_default)

\* the failure that leaves the handle as it is: no zclient_stop
zclient_failed_open(s) ==
  << zclient_event("ZCLIENT_CONNECT", [s EXCEPT !.z.fail = @ + 1]), -1 >>

\* the failure that arms no retry
zclient_failed_idle(s) ==
  << zclient_stop([s EXCEPT !.z.fail = @ + 1]), -1 >>

zclient_failed(s) ==
  << zclient_event("ZCLIENT_CONNECT",
                   zclient_stop([s EXCEPT !.z.fail = @ + 1])), -1 >>

(***************************************************************************)
(* The write buffer (buffer.c) and zclient_send_message.                    *)
(***************************************************************************)
\* the bytes of a queue of chunks
RECURSIVE Concat(_)
Concat(q) == IF q = << >> THEN << >> ELSE q[1] \o Concat(Tail(q))

\* a chunk that is a frame from its first byte on
WholeFrame(c) == Len(c) >= ZEBRA_HEADER_SIZE /\ stream_getw_at(c, 0) = Len(c)

\* where a write may stop inside a chunk: at its start; within the first
\* MaxCut bytes of a frame not yet begun
CutsOf(c) ==
  { 0 } \cup (IF WholeFrame(c) THEN 1 .. Min(MaxCut, Len(c) - 1) ELSE {})

\* A short write of the queue q: << the bytes written, the chunks left >>.
\* The write takes the first k-1 chunks and the first c bytes of the k-th;
\* something is always left.
ShortWrites(q) ==
  UNION { { << Concat(SubSeq(q, 1, k - 1)) \o SubSeq(q[k], 1, c),
               << SubSeq(q[k], c + 1, Len(q[k])) >> \o SubSeq(q, k + 1, Len(q)) >>
            : c \in CutsOf(q[k]) }
          : k \in 1 .. Len(q) }

\* buffer_write: appends the data to the queue and tries to write the queue
\* to the socket.  The outcomes: the write fails; everything is written;
\* a part (possibly none) is written and the rest stays queued.
buffer_write(s, data) ==
  LET tried == [s EXCEPT !.e.tx = Append(@, data)]
      q     == Append(s.z.wb, data)
  IN  { << tried, "BUFFER_ERROR" >>,
        << [tried EXCEPT !.z.wb = << >>, !.e.out = @ \o Concat(q)],
           "BUFFER_EMPTY" >> }
        \cup { << [tried EXCEPT !.z.wb = w[2], !.e.out = @ \o w[1]],
                  "BUFFER_PENDING" >>
                : w \in ShortWrites(q) }

\* a short write taken for an error
zclient_send_message_strict(s) ==
  IF s.z.sock < 0 THEN { << s, -1 >> }
  ELSE { CASE p[2] = "BUFFER_ERROR" -> zclient_failed(p[1])
           [] p[2] = "BUFFER_EMPTY" -> << WriteOff(p[1]), 0 >>
           [] p[2] = "BUFFER_PENDING" -> zclient_failed(p[1])
         : p \in buffer_write(s, s.obuf) }

\* an error of the write buffer passed over
zclient_send_message_deaf(s) ==
  IF s.z.sock < 0 THEN { << s, -1 >> }
  ELSE { CASE p[2] = "BUFFER_ERROR" -> << p[1], 0 >>
           [] p[2] = "BUFFER_EMPTY" -> << WriteOff(p[1]), 0 >>
           [] p[2] = "BUFFER_PENDING" -> << WriteOn(p[1]), 0 >>
         : p \in buffer_write(s, s.obuf) }

\* the send that does not look for the socket first
zclient_send_message_blind(s) ==
  { CASE p[2] = "BUFFER_ERROR" -> zclient_failed(p[1])
      [] p[2] = "BUFFER_EMPTY" -> << WriteOff(p[1]), 0 >>
      [] p[2] = "BUFFER_PENDING" -> << WriteOn(p[1]), 0 >>
    : p \in buffer_write(s, s.obuf) }

zclient_send_message(s) ==
  IF s.z.sock < 0 THEN { << s, -1 >> }
  ELSE { CASE p[2] = "BUFFER_ERROR" -> zclient_failed(p[1])
           [] p[2] = "BUFFER_EMPTY" -> << WriteOff(p[1]), 0 >>
           [] p[2] = "BUFFER_PENDING" -> << WriteOn(p[1]), 0 >>
         : p \in buffer_write(s, s.obuf) }

(***************************************************************************)
(* Encoding the requests.                                                   *)
(***************************************************************************)
zclient_create_header(stream, command) ==
  stream_putw(
    stream_putc(
      stream_putc(stream_putw(stream, ZEBRA_HEADER_SIZE), ZEBRA_HEADER_MARKER),
      ZSERV_VERSION),
    command)

zebra_message_send(s, command) ==
  zclient_send_message(
    [s EXCEPT !.obuf = zclient_create_header(<< >>, command)])

\* the hello sent whatever redist_default is
zebra_hello_send_always(s) ==
  LET b == stream_putc(zclient_create_header(<< >>, ZEBRA_HELLO),
                       s.z.redist_default)
  IN  zclient_send_message([s EXCEPT !.obuf = stream_putw_at(b, 0, Len(b))])

\* zebra_hello_send: nothing is sent when redist_default is 0
zebra_hello_send(s) ==
  IF s.z.redist_default # 0
    THEN LET b == stream_putc(zclient_create_header(<< >>, ZEBRA_HELLO),
                              s.z.redist_default)
         IN  zclient_send_message(
               [s EXCEPT !.obuf = stream_putw_at(b, 0, Len(b))])
    ELSE { << s, 0 >> }

zebra_redistribute_send(command, s, type) ==
  LET b == stream_putc(zclient_create_header(<< >>, command), type)
  IN  zclient_send_message([s EXCEPT !.obuf = stream_putw_at(b, 0, Len(b))])

\* CHECK_FLAG for a one-bit flag
CHECK_FLAG(v, f) == (v \div f) % 2 = 1

ZAPI_MESSAGE_NEXTHOP == 1
ZAPI_MESSAGE_DISTANCE == 4
ZAPI_MESSAGE_METRIC == 8
ZEBRA_FLAG_BLACKHOLE == 4
ZEBRA_NEXTHOP_IFINDEX == 1
ZEBRA_NEXTHOP_IPV4 == 3
ZEBRA_NEXTHOP_BLACKHOLE == 9

\* PSIZE(prefixlen)
PSIZE(a) == (a + 7) \div 8

stream_putl(s, l) ==
  s \o << (l \div 16777216) % 256, (l \div 65536) % 256, (l \div 256) % 256, l % 256 >>

RECURSIVE PutNexthops(_, _, _)
PutNexthops(b, nexthop, i) ==
  IF i > Len(nexthop) THEN b
  ELSE PutNexthops(stream_putl(stream_putc(b, ZEBRA_NEXTHOP_IPV4), nexthop[i]),
                   nexthop, i + 1)

RECURSIVE PutIfindexes(_, _, _)
PutIfindexes(b, ifindex, i) ==
  IF i > Len(ifindex) THEN b
  ELSE PutIfindexes(stream_putl(stream_putc(b, ZEBRA_NEXTHOP_IFINDEX), ifindex[i]),
                    ifindex, i + 1)

\* The frame zapi_ipv4_route builds in obuf.  p: [prefixlen, prefix (bytes)];
\* api: [type, flags, message, safi, nexthop, ifindex, distance, metric],
\* nexthop and ifindex being the arrays of nexthop_num and ifindex_num entries.
zapi_ipv4_encode(cmd, p, api) ==
  LET b0 == zclient_create_header(<< >>, cmd)
      b1 == stream_putw(
              stream_putc(stream_putc(stream_putc(b0, api.type), api.flags),
                          api.message),
              api.safi)
      b2 == stream_putc(b1, p.prefixlen) \o SubSeq(p.prefix, 1, PSIZE(p.prefixlen))
      b3 == IF CHECK_FLAG(api.message, ZAPI_MESSAGE_NEXTHOP)
              THEN LET c == IF CHECK_FLAG(api.flags, ZEBRA_FLAG_BLACKHOLE)
                              THEN stream_putc(stream_putc(b2, 1),
                                               ZEBRA_NEXTHOP_BLACKHOLE)
                              ELSE stream_putc(b2, Len(api.nexthop) + Len(api.ifindex))
                   IN  PutIfindexes(PutNexthops(c, api.nexthop, 1), api.ifindex, 1)
              ELSE b2
      b4 == IF CHECK_FLAG(api.message, ZAPI_MESSAGE_DISTANCE)
              THEN stream_putc(b3, api.distance) ELSE b3
      b5 == IF CHECK_FLAG(api.message, ZAPI_MESSAGE_METRIC)
              THEN stream_putl(b4, api.metric) ELSE b4
  IN  stream_putw_at(b5, 0, Len(b5))

zapi_ipv4_route(cmd, s, p, api) ==
  zclient_send_message([s EXCEPT !.obuf = zapi_ipv4_encode(cmd, p, api)])

(***************************************************************************)
(* Connecting.                                                              *)
(***************************************************************************)
\* zclient_socket_connect: -1, or any descriptor the system hands out; a
\* new connection has nothing in flight.
zclient_socket_connect(s) ==
  { [s EXCEPT !.z.sock = -1] }
    \cup { [s EXCEPT !.z.sock = fd, !.c = NoConn] : fd \in 0 .. MaxFd }

\* the replay that does not leave out redist_default
RECURSIVE FlushRedistribute_all(_, _)
FlushRedistribute_all(R, i) ==
  IF i >= ZEBRA_ROUTE_MAX THEN R
  ELSE FlushRedistribute_all(
         UNION { IF p[1].z.redist[i]
                   THEN zebra_redistribute_send(ZEBRA_REDISTRIBUTE_ADD, p[1], i)
                   ELSE { p }
                 : p \in R },
         i + 1)

\* for (i = 0; i < ZEBRA_ROUTE_MAX; i++) if (i != redist_default && redist[i]) ...
RECURSIVE FlushRedistribute(_, _)
FlushRedistribute(R, i) ==
  IF i >= ZEBRA_ROUTE_MAX THEN R
  ELSE FlushRedistribute(
         UNION { IF i # p[1].z.redist_default /\ p[1].z.redist[i]
                   THEN zebra_redistribute_send(ZEBRA_REDISTRIBUTE_ADD, p[1], i)
                   ELSE { p }
                 : p \in R },
         i + 1)

\* the start that keeps the failure counter on a successful connect
zclient_start_counting(s) ==
  IF \/ ~s.z.enable
     \/ s.z.sock >= 0
     \/ s.z.t_connect # NoThread
     \/ s.z.qtr.active
    THEN { << [s EXCEPT !.e.res = "not_attempted"], 0 >> }
    ELSE UNION {
      IF c.z.sock < 0
        THEN { << zclient_event("ZCLIENT_CONNECT",
                    [c EXCEPT !.z.fail = @ + 1, !.e.res = "connect_failed"]), -1 >> }
        ELSE LET added == IF zclient_nexus
                            THEN [c EXCEPT !.z.qf = [fd |-> c.z.sock, modes |-> {}]]
                            ELSE c
                 up == zclient_event("ZCLIENT_READ",
                         [added EXCEPT !.e.res = "connected"])
                 h1 == zebra_hello_send(up)
                 h2 == Then(h1, LAMBDA x : zebra_message_send(x, ZEBRA_ROUTER_ID_ADD))
                 h3 == Then(h2, LAMBDA x : zebra_message_send(x, ZEBRA_INTERFACE_ADD))
                 h4 == FlushRedistribute(h3, 0)
                 h5 == UNION { IF p[1].z.default_information
                                 THEN zebra_message_send(p[1],
                                        ZEBRA_REDISTRIBUTE_DEFAULT_ADD)
                                 ELSE { p }
                               : p \in h4 }
             IN  Ret(h5, 0)
      : c \in zclient_socket_connect(s) }

zclient_start(s) ==
  IF \/ ~s.z.enable
     \/ s.z.sock >= 0
     \/ s.z.t_connect # NoThread
     \/ s.z.qtr.active
    THEN { << [s EXCEPT !.e.res = "not_attempted"], 0 >> }
    ELSE UNION {
      IF c.z.sock < 0
        THEN { << zclient_event("ZCLIENT_CONNECT",
                    [c EXCEPT !.z.fail = @ + 1, !.e.res = "connect_failed"]), -1 >> }
        ELSE LET added == IF zclient_nexus
                            THEN [c EXCEPT !.z.qf = [fd |-> c.z.sock, modes |-> {}]]
                            ELSE c
                 up == zclient_event("ZCLIENT_READ",
                         [added EXCEPT !.z.fail = 0, !.e.res = "connected"])
                 h1 == zebra_hello_send(up)
                 h2 == Then(h1, LAMBDA x : zebra_message_send(x, ZEBRA_ROUTER_ID_ADD))
                 h3 == Then(h2, LAMBDA x : zebra_message_send(x, ZEBRA_INTERFACE_ADD))
                 h4 == FlushRedistribute(h3, 0)
                 h5 == UNION { IF p[1].z.default_information
                                 THEN zebra_message_send(p[1],
                                        ZEBRA_REDISTRIBUTE_DEFAULT_ADD)
                                 ELSE { p }
                               : p \in h4 }
             IN  Ret(h5, 0)
      : c \in zclient_socket_connect(s) }

zclient_connect_r(s) == zclient_start([s EXCEPT !.z.qtr = NoTimer])

zclient_connect_t(s) == zclient_start([s EXCEPT !.z.t_connect = NoThread])

\* the lookup connect that counts its failures and arms the retry
LookupConnect_counting(s) ==
  IF s.z.sock < 0
    THEN { IF c.z.sock < 0
             THEN zclient_event("ZCLIENT_CONNECT",
                    [c EXCEPT !.z.fail = @ + 1, !.e.res = "connect_failed"])
             ELSE [c EXCEPT !.e.res = "connected"]
           : c \in zclient_socket_connect(s) }
    ELSE { [s EXCEPT !.e.res = "not_attempted"] }

\* the lookup connect: only the socket, whatever the outcome
LookupConnect(s) ==
  IF s.z.sock < 0
    THEN { [c EXCEPT !.e.res = IF c.z.sock < 0 THEN "connect_failed"
                                ELSE "connected"]
           : c \in zclient_socket_connect(s) }
    ELSE { [s EXCEPT !.e.res = "not_attempted"] }

zlookup_connect_t(s) ==
  { << c, IF c.z.sock >= 0 THEN 0 ELSE -1 >>
    : c \in LookupConnect([s EXCEPT !.z.t_connect = NoThread]) }

zlookup_connect_r(s) ==
  { << c, 0 >> : c \in LookupConnect([s EXCEPT !.z.qtr = NoTimer]) }

zlookup_schedule(s) == zclient_event("ZLOOKUP_SCHEDULE", s)

(***************************************************************************)
(* Draining the write buffer.                                               *)
(***************************************************************************)
\* buffer_flush_available: the write fails; or the queue empties; or a
\* part of it (possibly none) is written and the rest stays queued.
buffer_flush_available(s) ==
  { << s, "BUFFER_ERROR" >>,
    << [s EXCEPT !.z.wb = << >>, !.e.out = @ \o Concat(s.z.wb)],
       "BUFFER_EMPTY" >> }
    \cup { << [s EXCEPT !.z.wb = w[2], !.e.out = @ \o w[1]], "BUFFER_PENDING" >>
           : w \in ShortWrites(s.z.wb) }

zclient_flush_data_r(s) ==
  LET off == [s EXCEPT !.z.qf.modes = @ \ {"write"}]
  IN  IF off.z.sock < 0 THEN { << off, 0 >> }
      ELSE { CASE p[2] = "BUFFER_ERROR" ->
                    << zclient_failed([p[1] EXCEPT !.e.res = "flush_error"])[1], 0 >>
               [] p[2] = "BUFFER_PENDING" ->
                    << [p[1] EXCEPT !.z.qf.modes = @ \cup {"write"}], 0 >>
               [] p[2] = "BUFFER_EMPTY" -> << p[1], 0 >>
             : p \in buffer_flush_available(off) }

zclient_flush_data_t(s) ==
  LET off == [s EXCEPT !.z.t_write = FALSE]
  IN  IF off.z.sock < 0 THEN { << off, -1 >> }
      ELSE { CASE p[2] = "BUFFER_ERROR" ->
                    zclient_failed([p[1] EXCEPT !.e.res = "flush_error"])
               [] p[2] = "BUFFER_PENDING" ->
                    << [p[1] EXCEPT !.z.t_write = TRUE], 0 >>
               [] p[2] = "BUFFER_EMPTY" -> << p[1], 0 >>
             : p \in buffer_flush_available(off) }

(***************************************************************************)
(* The reader.                                                              *)
(***************************************************************************)
\* stream_read_try(ibuf, sock, size): k bytes read (0 < k <= size); or -2,
\* the read would block; or -1, a fatal error; or 0, the peer has closed
\* and nothing is left to read.  Without a socket the read fails.
stream_read_try(s, size) ==
  IF s.z.sock < 0 THEN { << s, -1 >> }
  ELSE
  { << [s EXCEPT !.z.ibuf = @ \o SubSeq(s.c.net_in, 1, k),
                 !.c.net_in = SubSeq(@, k + 1, Len(@))], k >>
    : k \in 1 .. Min(size, Len(s.c.net_in)) }
    \cup { << s, -2 >>, << s, -1 >> }
    \cup (IF s.c.net_in = << >> THEN { << s, 0 >> } ELSE {})

\* What a handler may do with the handle before it returns.
HandlerActs == {"return", "zclient_stop", "zclient_reset", "zclient_start",
                "zclient_stop_start", "zapi_ipv4_route"}

\* a handler that stops and starts the handle is followed while the master
\* holds fewer than MaxReadThreads read threads after it
HandlerActsOf(s) ==
  IF s.z.master_read + 2 > MaxReadThreads
    THEN HandlerActs \ {"zclient_stop_start"}
    ELSE HandlerActs

\* the route the embedder's code sends (handlers and callers alike)
SomePrefix == [prefixlen |-> 8, prefix |-> << 10 >>]

SomeRoute == [type |-> 2, flags |-> 0, message |-> 0, safi |-> 1,
              nexthop |-> << >>, ifindex |-> << >>, distance |-> 0, metric |-> 0]

\* the sequences over S of at most n entries
SeqsUpTo(S, n) == UNION { [1 .. k -> S] : k \in 0 .. n }

\* the routes a caller may announce: with and without the nexthop and the
\* distance in the message, blackhole or not, with up to MaxNexthops
\* nexthop addresses and up to MaxIfindexes interface indexes
Routes ==
  { [type |-> 2, flags |-> f, message |-> m, safi |-> 1,
     nexthop |-> nh, ifindex |-> ix, distance |-> 20, metric |-> 0]
    : f \in {0, ZEBRA_FLAG_BLACKHOLE},
      m \in {0, ZAPI_MESSAGE_NEXTHOP, ZAPI_MESSAGE_NEXTHOP + ZAPI_MESSAGE_DISTANCE},
      nh \in SeqsUpTo({167772161}, MaxNexthops),
      ix \in SeqsUpTo({2}, MaxIfindexes) }

RunHandler(s, h) ==
  LET t == [s EXCEPT !.e.handler = h]
  IN  CASE h = "return" -> { t }
        [] h = "zclient_stop" -> { zclient_stop(t) }
        [] h = "zclient_reset" -> { zclient_reset(t) }
        [] h = "zclient_start" ->
             { [p[1] EXCEPT !.e.res = t.e.res] : p \in zclient_start(t) }
        [] h = "zclient_stop_start" ->
             { [p[1] EXCEPT !.e.res = t.e.res]
               : p \in zclient_start(zclient_stop(t)) }
        [] h = "zapi_ipv4_route" ->
             { p[1] : p \in zapi_ipv4_route(ZEBRA_IPV4_ROUTE_ADD, t,
                                            SomePrefix, SomeRoute) }

\* every command with a case is called, its slot filled in or not
HasHandler_any(command) == command \in KnownCommands

\* case ZEBRA_...: if (zclient->handler) ...; default: break;
HasHandler(command) == command \in KnownCommands /\ command \in Installed

\* switch (command) ... and what follows it (lines 1085-1148)
Dispatch(s, command, length) ==
  LET logged == [s EXCEPT !.c.disp = Append(@, << command, length >>),
                          !.e.res = "dispatched"]
      after  == IF HasHandler(command)
                  THEN UNION { RunHandler(logged, h) : h \in HandlerActsOf(logged) }
                  ELSE { logged }
  IN  { IF a.z.sock < 0 THEN << a, -1 >>
        ELSE << zclient_event("ZCLIENT_READ", [a EXCEPT !.z.ibuf = << >>]), 0 >>
        : a \in after }

\* a header one byte short of a header's length is let through
LengthTooShort_lax(length) == length < ZEBRA_HEADER_SIZE - 1

\* if (length < ZEBRA_HEADER_SIZE)
LengthTooShort(length) == length < ZEBRA_HEADER_SIZE

\* the header's length is handed on as it arrived
PayloadLength_whole(length) == length

\* length -= ZEBRA_HEADER_SIZE;
PayloadLength(length) == length - ZEBRA_HEADER_SIZE

\* the new stream taken without the copy of the old
GrowIbuf_fresh(s, length) ==
  [s EXCEPT !.z.ibuf_size = length, !.z.ibuf = << >>]

\* ns = stream_new(length); stream_copy(ns, ibuf); stream_free(ibuf); ibuf = ns
GrowIbuf(s, length) == [s EXCEPT !.z.ibuf_size = length]

\* from "Reset to read from the beginning of the incoming packet" on
ReadBody(s, already) ==
  LET length  == stream_getw_at(s.z.ibuf, 0)
      marker  == stream_getc_at(s.z.ibuf, 2)
      version == stream_getc_at(s.z.ibuf, 3)
      command == stream_getw_at(s.z.ibuf, 4)
  IN  IF marker # ZEBRA_HEADER_MARKER \/ version # ZSERV_VERSION
        THEN { zclient_failed([s EXCEPT !.e.res = "bad_header"]) }
      ELSE IF LengthTooShort(length)
        THEN { zclient_failed([s EXCEPT !.e.res = "bad_header"]) }
      ELSE LET g == IF length > s.z.ibuf_size THEN GrowIbuf(s, length) ELSE s
           IN  IF already < length
                 THEN UNION {
                        IF p[2] = 0 \/ p[2] = -1
                          THEN { zclient_failed([p[1] EXCEPT !.e.res = "closed"]) }
                        ELSE IF p[2] # length - already
                          THEN { << zclient_event("ZCLIENT_READ",
                                      [p[1] EXCEPT !.e.res = "again"]), 0 >> }
                        ELSE Dispatch(p[1], command, PayloadLength(length))
                        : p \in stream_read_try(g, length - already) }
                 ELSE Dispatch(g, command, PayloadLength(length))

\* the read that asks for as much as the stream holds while the header is
\* incomplete
zclient_read_ahead(s) ==
  LET already == Len(s.z.ibuf)
  IN  IF already < ZEBRA_HEADER_SIZE
        THEN UNION {
               IF p[2] = 0 \/ p[2] = -1
                 THEN { zclient_failed([p[1] EXCEPT !.e.res = "closed"]) }
               ELSE IF p[2] # ZEBRA_HEADER_SIZE - already
                 THEN { << zclient_event("ZCLIENT_READ",
                             [p[1] EXCEPT !.e.res = "again"]), 0 >> }
               ELSE ReadBody(p[1], ZEBRA_HEADER_SIZE)
               : p \in stream_read_try(s, s.z.ibuf_size - already) }
        ELSE ReadBody(s, already)

zclient_read(s) ==
  LET already == Len(s.z.ibuf)
  IN  IF already < ZEBRA_HEADER_SIZE
        THEN UNION {
               IF p[2] = 0 \/ p[2] = -1
                 THEN { zclient_failed([p[1] EXCEPT !.e.res = "closed"]) }
               ELSE IF p[2] # ZEBRA_HEADER_SIZE - already
                 THEN { << zclient_event("ZCLIENT_READ",
                             [p[1] EXCEPT !.e.res = "again"]), 0 >> }
               ELSE ReadBody(p[1], ZEBRA_HEADER_SIZE)
               : p \in stream_read_try(s, ZEBRA_HEADER_SIZE - already) }
        ELSE ReadBody(s, already)

zclient_read_r(s) == zclient_read([s EXCEPT !.z.qf.modes = @ \ {"read"}])

zclient_read_t(s) ==
  zclient_read([s EXCEPT !.z.t_read = FALSE, !.z.master_read = @ - 1])

(***************************************************************************)
(* The redistribute bookkeeping.                                            *)
(***************************************************************************)
\* if (zclient->sock > 0)
SockUp(sock) == sock > 0

zclient_redistribute(command, s, type) ==
  IF command = ZEBRA_REDISTRIBUTE_ADD /\ s.z.redist[type] THEN { << s, 0 >> }
  ELSE IF command # ZEBRA_REDISTRIBUTE_ADD /\ ~s.z.redist[type] THEN { << s, 0 >> }
  ELSE LET set == [s EXCEPT !.z.redist[type] = (command = ZEBRA_REDISTRIBUTE_ADD)]
       IN  IF SockUp(set.z.sock)
             THEN Ret(zebra_redistribute_send(command, set, type), 0)
             ELSE { << set, 0 >> }

zclient_redistribute_default(command, s) ==
  IF command = ZEBRA_REDISTRIBUTE_DEFAULT_ADD /\ s.z.default_information
    THEN { << s, 0 >> }
  ELSE IF command # ZEBRA_REDISTRIBUTE_DEFAULT_ADD /\ ~s.z.default_information
    THEN { << s, 0 >> }
  ELSE LET set == [s EXCEPT !.z.default_information =
                              (command = ZEBRA_REDISTRIBUTE_DEFAULT_ADD)]
       IN  IF SockUp(set.z.sock)
             THEN Ret(zebra_message_send(set, command), 0)
             ELSE { << set, 0 >> }

(***************************************************************************)
(* The server.                                                              *)
(***************************************************************************)
\* a frame on the wire: the header and body zero bytes
FrameBytes(length, marker, version, command, body) ==
  stream_putw(stream_putc(stream_putc(stream_putw(<< >>, length), marker), version),
              command)
    \o [i \in 1 .. body |-> 0]

\* an unassigned command code
UnknownCommand == 99

\* the command of the frames callers build themselves (a nexthop lookup)
ZEBRA_IPV4_NEXTHOP_LOOKUP == 15

\* What the server may send: [length, marker, version, command, body], body
\* being the number of bytes that follow the header.  The commands: one
\* with a handler, one whose handler slot is null, one unassigned.
WellFormed ==
  { [length |-> ZEBRA_HEADER_SIZE + b[2], marker |-> ZEBRA_HEADER_MARKER,
     version |-> ZSERV_VERSION, command |-> b[1], body |-> b[2]]
    : b \in { << ZEBRA_INTERFACE_ADD, 0 >>, << ZEBRA_INTERFACE_ADD, MaxPayload >>,
              << ZEBRA_INTERFACE_UP, 0 >>, << UnknownCommand, MaxPayload >> } }

\* a wrong marker, a wrong version, a length below the header's
Malformed ==
  { [length |-> ZEBRA_HEADER_SIZE + 1, marker |-> 0, version |-> ZSERV_VERSION,
     command |-> ZEBRA_INTERFACE_ADD, body |-> 1],
    [length |-> ZEBRA_HEADER_SIZE, marker |-> ZEBRA_HEADER_MARKER,
     version |-> ZSERV_VERSION - 1, command |-> UnknownCommand, body |-> 0],
    [length |-> ZEBRA_HEADER_SIZE - 1, marker |-> ZEBRA_HEADER_MARKER,
     version |-> ZSERV_VERSION, command |-> ZEBRA_INTERFACE_ADD, body |-> 0] }

IsWellFormed(f) ==
  /\ f.marker = ZEBRA_HEADER_MARKER
  /\ f.version = ZSERV_VERSION
  /\ f.length >= ZEBRA_HEADER_SIZE
  /\ f.length = ZEBRA_HEADER_SIZE + f.body

(***************************************************************************)
(* The steps.                                                               *)
(***************************************************************************)
Install(p) ==
  /\ zclient' = p[1].z
  /\ conn' = p[1].c
  /\ UNCHANGED zclient_nexus

\* zclient_init "assumes is given a struct zclient* recently created by
\* zclient_new(), or recently stopped by zclient_stop()": no socket, nothing
\* armed, nothing buffered.
Stopped(z) ==
  /\ z.sock < 0
  /\ ~z.t_read /\ ~z.t_write /\ z.t_connect = NoThread
  /\ z.qf = NoFile /\ ~z.qtr.active
  /\ z.ibuf = << >> /\ z.wb = << >>

\* callers are followed while the write buffer holds fewer than MaxPending frames
CanCall == Len(zclient.wb) < MaxPending

\* ---- the embedder's calls
ZclientInit ==
  /\ Stopped(zclient)
  /\ \E rd \in 0 .. MaxRedistDefault :
       Install(<< zclient_init(Begin, rd), 0 >>)

ZclientStop ==
  \E p \in { << zclient_stop(Begin), 0 >> } : Install(p)

ZclientReset ==
  \E p \in { << zclient_reset(Begin), 0 >> } : Install(p)

ZlookupSchedule ==
  /\ zclient.fail < MaxFail
  /\ Install(<< zlookup_schedule(Begin), 0 >>)

ZclientStart ==
  /\ zclient.fail < MaxFail
  /\ \E p \in zclient_start(Begin) : Install(p)

ZclientRedistribute ==
  /\ CanCall
  /\ \E command \in {ZEBRA_REDISTRIBUTE_ADD, ZEBRA_REDISTRIBUTE_DELETE},
        type \in RouteTypes :
       \E p \in zclient_redistribute(command,
                  Begin, type) :
         Install(p)

ZclientRedistributeDefault ==
  /\ CanCall
  /\ \E command \in {ZEBRA_REDISTRIBUTE_DEFAULT_ADD,
                     ZEBRA_REDISTRIBUTE_DEFAULT_DELETE} :
       \E p \in zclient_redistribute_default(command,
                  Begin) :
         Install(p)

ZapiIpv4Route ==
  /\ CanCall
  /\ \E p \in zapi_ipv4_route(ZEBRA_IPV4_ROUTE_ADD,
                Begin,
                SomePrefix, SomeRoute) :
       Install(p)

\* the caller announces any of the routes
ZapiIpv4RouteAny ==
  /\ CanCall
  /\ \E api \in Routes :
       \E p \in zapi_ipv4_route(ZEBRA_IPV4_ROUTE_ADD, Begin, SomePrefix, api) :
         Install(p)

\* the caller builds a frame of its own in obuf and sends it
ZclientSendMessage ==
  /\ CanCall
  /\ \E p \in zclient_send_message(
                [Begin EXCEPT !.obuf = zclient_create_header(<< >>, ZEBRA_IPV4_NEXTHOP_LOOKUP)]) :
       Install(p)

\* ---- the callbacks, callback-thread back-end
ConnectThread ==
  /\ zclient.t_connect.fn = "zclient_connect_t"
  /\ \E p \in zclient_connect_t(Begin) : Install(p)

LookupThread ==
  /\ zclient.t_connect.fn = "zlookup_connect_t"
  /\ \E p \in zlookup_connect_t(Begin) : Install(p)

ReadThread ==
  /\ zclient.master_read > 0
  /\ \E p \in zclient_read_t(Begin) : Install(p)

WriteThread ==
  /\ zclient.t_write
  /\ \E p \in zclient_flush_data_t(Begin) :
       Install(p)

\* ---- the callbacks, nexus back-end
ConnectTimer ==
  /\ zclient.qtr.active
  /\ zclient.qtr.fn = "zclient_connect_r"
  /\ \E p \in zclient_connect_r(Begin) : Install(p)

LookupTimer ==
  /\ zclient.qtr.active
  /\ zclient.qtr.fn = "zlookup_connect_r"
  /\ \E p \in zlookup_connect_r(Begin) : Install(p)

ReadReady ==
  /\ "read" \in zclient.qf.modes
  /\ \E p \in zclient_read_r(Begin) : Install(p)

WriteReady ==
  /\ "write" \in zclient.qf.modes
  /\ \E p \in zclient_flush_data_r(Begin) :
       Install(p)

\* ---- the server
ServerSend ==
  /\ zclient.sock >= 0
  /\ Len(conn.srv) < MaxInFrames
  /\ \A i \in 1 .. Len(conn.srv) : IsWellFormed(conn.srv[i])
  /\ \E f \in WellFormed \cup Malformed :
       conn' = [conn EXCEPT
                  !.net_in = @ \o FrameBytes(f.length, f.marker, f.version,
                                             f.command, f.body),
                  !.srv = Append(@, f)]
  /\ UNCHANGED << zclient_nexus, zclient >>

Init ==
  /\ zclient_nexus \in BOOLEAN
  /\ zclient = zclient_new
  /\ conn = NoConn

\* The handle and its callers: every call of the embedder and every callback;
\* the server stays silent, so the reader sees would-block, an error or the
\* end of the stream.
Next ==
  \/ ZclientInit
  \/ ZclientStop
  \/ ZclientReset
  \/ ZlookupSchedule
  \/ ZclientStart
  \/ ZclientRedistribute
  \/ ZclientRedistributeDefault
  \/ ZapiIpv4Route
  \/ ZclientSendMessage
  \/ ConnectThread
  \/ LookupThread
  \/ ReadThread
  \/ WriteThread
  \/ ConnectTimer
  \/ LookupTimer
  \/ ReadReady
  \/ WriteReady

Spec == Init /\ [][Next]_vars

\* The handle and the server: the handle is initialised, connects by its
\* scheduled callback and reads what the server sends.
NextRead ==
  \/ ZclientInit
  \/ ZclientStop
  \/ ZclientReset
  \/ ConnectThread
  \/ ReadThread
  \/ WriteThread
  \/ ConnectTimer
  \/ ReadReady
  \/ WriteReady
  \/ ServerSend

SpecRead == Init /\ [][NextRead]_vars

\* The handle and its routes: the handle is initialised, connects by its
\* scheduled callback, announces routes and drains what stays queued.
NextRoute ==
  \/ ZclientInit
  \/ ZclientStop
  \/ ZapiIpv4RouteAny
  \/ ConnectThread
  \/ WriteThread
  \/ ConnectTimer
  \/ WriteReady

SpecRoute == Init /\ [][NextRoute]_vars

\* The handle that no caller stops: every call but zclient_stop, and every
\* callback.  The scheduler runs an armed connect and an armed write
\* callback in the end (WF); a connect that is attempted again and again is
\* accepted in the end, and a drain that is attempted again and again
\* empties the write buffer in the end (SF).
NextLive ==
  \/ ZclientInit
  \/ ZclientReset
  \/ ZlookupSchedule
  \/ ZclientStart
  \/ ZclientSendMessage
  \/ ConnectThread
  \/ LookupThread
  \/ ReadThread
  \/ WriteThread
  \/ ConnectTimer
  \/ LookupTimer
  \/ ReadReady
  \/ WriteReady

Accepted == zclient'.sock >= 0

Drained == zclient'.sock >= 0 /\ zclient'.wb = << >>

\* the poll file of the handle is in the selection: qps_add_file has given
\* it the socket (zclient_start, line 467), and zclient_stop has not taken
\* it out since.  The selection polls no other file.
Polled == zclient.qf.fd >= 0

Fairness ==
  /\ WF_vars(ConnectThread) /\ WF_vars(ConnectTimer)
  /\ SF_vars(ConnectThread /\ Accepted) /\ SF_vars(ConnectTimer /\ Accepted)
  /\ WF_vars(WriteThread) /\ WF_vars(WriteReady /\ Polled)
  /\ SF_vars(WriteThread /\ Drained) /\ SF_vars(WriteReady /\ Polled /\ Drained)

SpecLive == Init /\ [][NextLive]_vars /\ Fairness

(***************************************************************************)
(* What the properties speak of.                                            *)
(***************************************************************************)
\* the delay of the connect attempt armed on z; -1 when none is armed
RetryDelay(z) ==
  IF z.t_connect.fn = "zclient_connect_t" THEN z.t_connect.secs
  ELSE IF z.qtr.active /\ z.qtr.fn = "zclient_connect_r" THEN z.qtr.secs
  ELSE -1

\* nothing is armed on z: no connect, no read, no write
Quiet(z) ==
  /\ z.t_connect = NoThread /\ ~z.qtr.active
  /\ ~z.t_read /\ ~z.t_write /\ z.qf.modes = {}

\* The connect attempts open in the current state: the armed callback of
\* either back-end, and the embedder's own call of zclient_start.
ConnectAttempts ==
  (IF zclient.t_connect.fn = "zclient_connect_t"
     THEN zclient_connect_t(Begin) ELSE {})
    \cup (IF zclient.qtr.active /\ zclient.qtr.fn = "zclient_connect_r"
            THEN zclient_connect_r(Begin) ELSE {})
    \cup zclient_start(Begin)

\* The calls that send: redistribute, redistribute_default, a route, a frame
\* of the caller's own.
RedistributeCalls ==
  UNION { zclient_redistribute(command, Begin, type)
          : command \in {ZEBRA_REDISTRIBUTE_ADD, ZEBRA_REDISTRIBUTE_DELETE},
            type \in RouteTypes }

RedistributeDefaultCalls ==
  UNION { zclient_redistribute_default(command, Begin)
          : command \in {ZEBRA_REDISTRIBUTE_DEFAULT_ADD,
                         ZEBRA_REDISTRIBUTE_DEFAULT_DELETE} }

SendingCalls ==
  RedistributeCalls \cup RedistributeDefaultCalls
    \cup zapi_ipv4_route(ZEBRA_IPV4_ROUTE_ADD, Begin, SomePrefix, SomeRoute)
    \cup zclient_send_message(
           [Begin EXCEPT !.obuf = zclient_create_header(<< >>, ZEBRA_IPV4_NEXTHOP_LOOKUP)])

\* a frame as the peer decodes it: its command, and the byte after the
\* header (-1 when the frame is a bare header)
FrameCommand(f) == stream_getw_at(f, 4)

FrameArg(f) == IF Len(f) > ZEBRA_HEADER_SIZE THEN f[ZEBRA_HEADER_SIZE + 1] ELSE -1

Decoded(frames) ==
  [i \in 1 .. Len(frames) |-> << FrameCommand(frames[i]), FrameArg(frames[i]) >>]

\* the header of a frame says what the frame is
FrameOk(f) ==
  /\ Len(f) >= ZEBRA_HEADER_SIZE
  /\ stream_getw_at(f, 0) = Len(f)
  /\ stream_getc_at(f, 2) = ZEBRA_HEADER_MARKER
  /\ stream_getc_at(f, 3) = ZSERV_VERSION

IsPrefix(a, b) == Len(a) <= Len(b) /\ a = SubSeq(b, 1, Len(a))

\* the members of a set of numbers in ascending order
Ascending(S) ==
  CHOOSE q \in [1 .. Cardinality(S) -> S] :
    \A i, j \in 1 .. Cardinality(S) : i < j => q[i] < q[j]

\* the types a connection of z has to subscribe to again
Replayed(z) == { t \in RouteTypes : z.redist[t] /\ t # z.redist_default }

\* the handshake a connection of z opens with
Handshake(z) ==
  (IF z.redist_default # 0
     THEN << << ZEBRA_HELLO, z.redist_default >> >> ELSE << >>)
    \o << << ZEBRA_ROUTER_ID_ADD, -1 >>, << ZEBRA_INTERFACE_ADD, -1 >> >>
    \o [i \in 1 .. Cardinality(Replayed(z)) |->
          << ZEBRA_REDISTRIBUTE_ADD, Ascending(Replayed(z))[i] >>]
    \o (IF z.default_information
          THEN << << ZEBRA_REDISTRIBUTE_DEFAULT_ADD, -1 >> >> ELSE << >>)

IsRedistributeAdd(f) ==
  Len(f) >= ZEBRA_HEADER_SIZE /\ FrameCommand(f) = ZEBRA_REDISTRIBUTE_ADD

(***************************************************************************)
(* The back-off of the connect attempts.                                    *)
(***************************************************************************)
\* C1: when a connect attempt of an initialised, enabled handle fails and
\* the failure counter becomes k, the retry is armed 10 s ahead if k < 3,
\* 60 s ahead if 3 <= k < 10, and no retry is armed if k >= 10; on either
\* back-end, and on that back-end's own timer.
C1_Backoff ==
  \A p \in ConnectAttempts :
    p[1].e.res = "connect_failed" =>
      LET k == p[1].z.fail
      IN  /\ zclient.enable
          /\ k = zclient.fail + 1
          /\ p[1].z.sock < 0
          /\ RetryDelay(p[1].z) =
               IF k < 3 THEN 10 ELSE IF k < 10 THEN 60 ELSE -1
          /\ IF zclient_nexus THEN p[1].z.t_connect = NoThread
                              ELSE ~p[1].z.qtr.active

\* the third failure in a row has armed the retry a minute ahead
C1_Witness ==
  /\ zclient.fail = 3
  /\ zclient.sock < 0
  /\ RetryDelay(zclient) = 60

\* the handle has given up: enabled, ten failures or more, no socket, no
\* connect armed
Dormant(z) ==
  /\ z.enable
  /\ z.fail >= 10
  /\ z.sock < 0
  /\ z.t_connect = NoThread /\ ~z.qtr.active

C3_HandshakeOrder ==
  /\ zclient.sock < 0 => zclient.wb = << >>
  /\ \A p \in ConnectAttempts :
       p[1].e.res = "connected" =>
         LET sent == p[1].e.tx
         IN  /\ \A i \in 1 .. Len(sent) : FrameOk(sent[i])
             /\ IF p[1].z.sock >= 0
                  THEN Decoded(sent) = Handshake(zclient)
                  ELSE IsPrefix(Decoded(sent), Handshake(zclient))
             /\ \E k \in 0 .. Len(Concat(sent)) :
                  Concat(p[1].z.wb) = SubSeq(Concat(sent), k + 1, Len(Concat(sent)))

\* a connection whose whole handshake, all five kinds of frame, is still
\* queued in the write buffer
C3_Witness ==
  /\ zclient.sock >= 0
  /\ zclient.redist_default # 0
  /\ zclient.default_information
  /\ Replayed(zclient) # {}
  /\ \A i \in 1 .. Len(zclient.wb) : FrameOk(zclient.wb[i])
  /\ Decoded(zclient.wb) = Handshake(zclient)

\* C4: on every connection zclient_start sets up, the REDISTRIBUTE_ADD frames
\* passed to the write buffer name exactly the types t with redist[t] set
\* and t # redist_default, each once, in ascending order (the first of them
\* if a send fails on the way).
C4_Replay ==
  \A p \in ConnectAttempts :
    p[1].e.res = "connected" =>
      LET adds == SelectSeq(p[1].e.tx, IsRedistributeAdd)
          types == [i \in 1 .. Len(adds) |-> FrameArg(adds[i])]
      IN  /\ p[1].z.redist = zclient.redist
          /\ IF p[1].z.sock >= 0
               THEN types = Ascending(Replayed(zclient))
               ELSE IsPrefix(types, Ascending(Replayed(zclient)))

\* two subscriptions replayed on a new connection, in ascending order and
\* still queued
C4_Witness ==
  /\ zclient.sock >= 0
  /\ Cardinality(Replayed(zclient)) = 2
  /\ LET adds == SelectSeq(zclient.wb, IsRedistributeAdd)
     IN  [i \in 1 .. Len(adds) |-> FrameArg(adds[i])] = Ascending(Replayed(zclient))

(***************************************************************************)
(* The redistribute bookkeeping.                                            *)
(***************************************************************************)
\* the same call made again on what the first call left
Again(R, F(_)) == UNION { F([p[1] EXCEPT !.obuf = << >>]) : p \in R }

\* C5: on a connected handle, redistribute(ADD, t) called twice in a row
\* for a type not yet subscribed passes exactly one message to the socket;
\* redistribute(DELETE, t) for a type not subscribed passes none and leaves
\* redist as it is; and so for redistribute_default and default_information.
C5_Idempotent ==
  zclient.sock >= 0 =>
    /\ \A t \in RouteTypes :
         ~zclient.redist[t] =>
           /\ \A p \in Again(zclient_redistribute(ZEBRA_REDISTRIBUTE_ADD, Begin, t),
                         LAMBDA x : zclient_redistribute(ZEBRA_REDISTRIBUTE_ADD, x, t)) :
                Len(p[1].e.tx) = 1
           /\ \A p \in zclient_redistribute(ZEBRA_REDISTRIBUTE_DELETE, Begin, t) :
                p[1].e.tx = << >> /\ p[1].z.redist = zclient.redist
    /\ ~zclient.default_information =>
         /\ \A p \in Again(zclient_redistribute_default(
                             ZEBRA_REDISTRIBUTE_DEFAULT_ADD, Begin),
                       LAMBDA x : zclient_redistribute_default(
                                    ZEBRA_REDISTRIBUTE_DEFAULT_ADD, x)) :
              Len(p[1].e.tx) = 1
         /\ \A p \in zclient_redistribute_default(
                       ZEBRA_REDISTRIBUTE_DEFAULT_DELETE, Begin) :
              p[1].e.tx = << >> /\ ~p[1].z.default_information

\* C6: once the handle is initialised, redist[redist_default] is set in
\* every state.
C6_OwnTypeSubscribed ==
  zclient.enable => zclient.redist[zclient.redist_default]

\* C7: an initialised handle never passes to the socket a REDISTRIBUTE_ADD
\* frame whose type is redist_default: not in the replay of a connect
\* attempt, not from a call of redistribute.
C7_NoOwnTypeRequested ==
  zclient.enable =>
    \A p \in ConnectAttempts \cup RedistributeCalls :
      \A i \in 1 .. Len(p[1].e.tx) :
        ~ /\ IsRedistributeAdd(p[1].e.tx[i])
          /\ FrameArg(p[1].e.tx[i]) = zclient.redist_default

\* C8: with a socket, whatever its descriptor, a call of redistribute or
\* redistribute_default that changes the stored state passes exactly one
\* frame, of that command and type, to the socket; without a socket the call
\* changes the stored state only.
C8_SentWhenSocketUp ==
  /\ \A command \in {ZEBRA_REDISTRIBUTE_ADD, ZEBRA_REDISTRIBUTE_DELETE},
        t \in RouteTypes :
       zclient.redist[t] # (command = ZEBRA_REDISTRIBUTE_ADD) =>
         \A p \in zclient_redistribute(command, Begin, t) :
           /\ p[1].z.redist =
                [zclient.redist EXCEPT ![t] = (command = ZEBRA_REDISTRIBUTE_ADD)]
           /\ IF zclient.sock >= 0
                THEN Decoded(p[1].e.tx) = << << command, t >> >>
                ELSE /\ p[1].e.tx = << >>
                     /\ p[1].c = conn
                     /\ p[1].z = [zclient EXCEPT !.redist = p[1].z.redist]
  /\ \A command \in {ZEBRA_REDISTRIBUTE_DEFAULT_ADD,
                     ZEBRA_REDISTRIBUTE_DEFAULT_DELETE} :
       zclient.default_information # (command = ZEBRA_REDISTRIBUTE_DEFAULT_ADD) =>
         \A p \in zclient_redistribute_default(command, Begin) :
           /\ p[1].z.default_information =
                (command = ZEBRA_REDISTRIBUTE_DEFAULT_ADD)
           /\ IF zclient.sock >= 0
                THEN Decoded(p[1].e.tx) = << << command, -1 >> >>
                ELSE /\ p[1].e.tx = << >>
                     /\ p[1].c = conn
                     /\ p[1].z = [zclient EXCEPT !.default_information =
                                                   p[1].z.default_information]

(***************************************************************************)
(* The reader.                                                              *)
(***************************************************************************)
\* the reads open in the state s: the armed callback of either back-end
ReadAttemptsOf(s) ==
  (IF s.z.master_read > 0 THEN zclient_read_t(s) ELSE {})
    \cup (IF "read" \in s.z.qf.modes THEN zclient_read_r(s) ELSE {})

\* the reads open in the current state
ReadAttempts == ReadAttemptsOf(Begin)

\* the read callback of the back-end is armed on z
ReadArmed(z) == IF zclient_nexus THEN "read" \in z.qf.modes ELSE z.t_read

\* the write callback of the back-end is armed on z
WriteArmed(z) == IF zclient_nexus THEN "write" \in z.qf.modes ELSE z.t_write

\* the frames of the connection that are not dispatched yet
Undispatched == SubSeq(conn.srv, Len(conn.disp) + 1, Len(conn.srv))

\* the reader is at a frame whose header is to be rejected
AtMalformed == Undispatched # << >> /\ ~IsWellFormed(Undispatched[1])

\* the bytes of a sequence of frames
RECURSIVE Flatten(_)
Flatten(frames) ==
  IF frames = << >> THEN << >>
  ELSE FrameBytes(frames[1].length, frames[1].marker, frames[1].version,
                  frames[1].command, frames[1].body)
         \o Flatten(Tail(frames))

\* C9: a frame whose header has a wrong marker, a wrong version or a length
\* below the header's is never dispatched and no handler runs for it,
\* whatever its command and however its header bytes arrive: a read either
\* leaves the header incomplete, or fails the connection (the failure
\* counter goes up by one, the socket is closed, the retry is armed); once
\* the header is complete the read rejects it.  No well-formed frame is
\* rejected.
C9_HeaderRejection ==
  \A p \in ReadAttempts :
    /\ AtMalformed =>
         /\ p[1].e.handler = ""
         /\ p[1].e.res \in {"again", "closed", "bad_header"}
         /\ p[1].e.res = "again" =>
              /\ Len(p[1].z.ibuf) < ZEBRA_HEADER_SIZE
              /\ p[1].z.sock = zclient.sock
         /\ p[1].e.res = "closed" => Len(zclient.ibuf) < ZEBRA_HEADER_SIZE
    /\ p[1].e.res = "bad_header" =>
         /\ AtMalformed
         /\ p[1].e.handler = ""
         /\ zclient.sock >= 0
         /\ p[1].z.sock < 0
         /\ p[1].c = NoConn
         /\ p[1].z.fail = zclient.fail + 1
         /\ RetryDelay(p[1].z) = 10
         /\ p[1].z.ibuf = << >> /\ p[1].z.wb = << >>
         /\ ~p[1].z.t_read /\ ~p[1].z.t_write /\ p[1].z.qf = NoFile

\* a part of the header of a frame that is to be rejected has been read,
\* and the reader is armed for the rest
C9_Witness ==
  /\ AtMalformed
  /\ Len(zclient.ibuf) \in 1 .. (ZEBRA_HEADER_SIZE - 1)
  /\ ReadAttempts # {}
  /\ \E p \in ReadAttempts : p[1].e.res = "bad_header"

\* the handler the operation ran has stopped the handle
StopsHandle(s) ==
  s.e.handler \in {"zclient_stop", "zclient_reset", "zclient_stop_start"}

\* the operation ends on the connection it began on: it holds a socket and
\* its handler, if one ran, has not stopped the handle
KeepsConnection(s) == s.z.sock >= 0 /\ ~StopsHandle(s)

\* C10: of the well-formed frames the server has sent on a connection, in
\* whatever chunks they arrive, the reader has dispatched the first ones, in
\* order, each once, each with its command and with its length less the
\* header's; the bytes of the others are all still there, in the read
\* stream and on the way, so that none is lost and none is read twice.  (A
\* handler that stops the handle ends the connection, and its frames with
\* it.)
C10_FramingIntegrity ==
  /\ Len(conn.disp) <= Len(conn.srv)
  /\ \A i \in 1 .. Len(conn.disp) :
       /\ IsWellFormed(conn.srv[i])
       /\ conn.disp[i] = << conn.srv[i].command,
                            conn.srv[i].length - ZEBRA_HEADER_SIZE >>
  /\ zclient.ibuf \o conn.net_in = Flatten(Undispatched)
  /\ \A p \in ReadAttempts :
       p[1].e.res = "dispatched" =>
         /\ Undispatched # << >>
         /\ IsWellFormed(Undispatched[1])
         /\ KeepsConnection(p[1]) =>
              /\ p[1].c.disp =
                   Append(conn.disp, << Undispatched[1].command,
                                        Undispatched[1].body >>)
              /\ p[1].z.ibuf = << >>
              /\ p[1].c.net_in = Flatten(Tail(Undispatched))

\* one frame is dispatched, and the next, a frame with a payload, has
\* arrived in part: its header and the first byte after it
C10_Witness ==
  /\ Len(conn.disp) = 1
  /\ Len(conn.srv) = 2
  /\ IsWellFormed(conn.srv[2])
  /\ Len(zclient.ibuf) = ZEBRA_HEADER_SIZE + 1
  /\ conn.net_in # << >>

\* the commands the embedder has a handler for
Handled == { ZEBRA_ROUTER_ID_UPDATE, ZEBRA_INTERFACE_ADD }

\* C11: a well-formed frame whose command has no handler (an unassigned
\* code, or a code whose slot is null) is dropped: no handler runs, nothing
\* is sent, the failure counter, the socket and the write buffer stay as
\* they are, the read stream is reset and the read is armed again; and the
\* frame after it, when it is there, is dispatched by the next read, to its
\* handler if it has one.
C11_UnknownDropped ==
  \A p \in ReadAttempts :
    (p[1].e.res = "dispatched" /\ Undispatched[1].command \notin Handled) =>
      /\ p[2] = 0
      /\ p[1].e.handler = ""
      /\ p[1].e.tx = << >> /\ p[1].e.out = << >>
      /\ p[1].z.fail = zclient.fail
      /\ p[1].z.sock = zclient.sock /\ p[1].z.sock >= 0
      /\ p[1].z.wb = zclient.wb
      /\ p[1].z.ibuf = << >>
      /\ ReadArmed(p[1].z)
      /\ LET rest == Tail(Undispatched)
         IN  (rest # << >> /\ IsWellFormed(rest[1])) =>
               \E q \in ReadAttemptsOf([p[1] EXCEPT !.e = NoEv]) :
                 /\ q[1].e.res = "dispatched"
                 /\ (q[1].e.handler # "") = (rest[1].command \in Handled)
                 /\ q[1].z.sock >= 0 =>
                      q[1].c.disp = Append(p[1].c.disp,
                                           << rest[1].command, rest[1].body >>)

\* a frame with an unassigned command was dropped and the frame after it,
\* one with a handler, was dispatched on the same connection
C11_Witness ==
  /\ zclient.sock >= 0
  /\ Len(conn.disp) = 2
  /\ conn.disp[1][1] = UnknownCommand
  /\ conn.disp[2][1] \in Handled

(***************************************************************************)
(* Sending.                                                                 *)
(***************************************************************************)
\* the retry the back-off rule arms after the k-th failure; -1: none
Backoff(k) == IF k < 3 THEN 10 ELSE IF k < 10 THEN 60 ELSE -1

\* za is what the step to Failing makes of zb: one failure more, no socket,
\* no read and no write armed, the streams and the write buffer empty, the
\* connect retry of the back-off rule armed and nothing else; the rest as
\* it was
FailedFrom(zb, za) ==
  /\ za.fail = zb.fail + 1
  /\ za.sock < 0
  /\ ~za.t_read /\ ~za.t_write /\ za.qf = NoFile
  /\ za.ibuf = << >> /\ za.wb = << >>
  /\ RetryDelay(za) = Backoff(za.fail)
  /\ Backoff(za.fail) = -1 => za.t_connect = NoThread /\ ~za.qtr.active
  /\ IF zclient_nexus THEN za.t_connect = NoThread ELSE ~za.qtr.active
  /\ za.enable = zb.enable /\ za.redist = zb.redist
  /\ za.redist_default = zb.redist_default
  /\ za.default_information = zb.default_information

\* a frame of the caller's, built in obuf
CallerFrame == zclient_create_header(<< >>, ZEBRA_IPV4_NEXTHOP_LOOKUP)

\* C12: zclient_send_message returns -1, writes nothing and changes nothing
\* when the handle has no socket; with a socket it returns -1 exactly when
\* the write buffer reports an error, and the handle is then Failing; it
\* returns 0 when the write buffer took the frame, whether all of it was
\* written or a part stays queued, and the handle keeps its socket and its
\* failure counter.
C12_SendMessageReturns ==
  LET s0 == [Begin EXCEPT !.obuf = CallerFrame]
      R  == zclient_send_message(s0)
  IN  IF zclient.sock < 0
        THEN R = { << s0, -1 >> }
        ELSE /\ \A p \in R :
                  /\ p[2] \in {0, -1}
                  /\ p[2] = -1 =>
                       /\ FailedFrom(zclient, p[1].z)
                       /\ p[1].e.out = << >>
                       /\ p[1].c = NoConn
                  /\ p[2] = 0 =>
                       /\ p[1].z.sock = zclient.sock
                       /\ p[1].z.fail = zclient.fail
                       /\ p[1].c = conn
             /\ \A b \in buffer_write(s0, CallerFrame) :
                  \E p \in R :
                    IF b[2] = "BUFFER_ERROR"
                      THEN p[2] = -1
                      ELSE /\ p[2] = 0
                           /\ p[1].z.wb = b[1].z.wb
                           /\ p[1].e.out = b[1].e.out
                           /\ (b[2] = "BUFFER_PENDING") = (p[1].z.wb # << >>)

\* a frame was written in part: its rest is queued on the connection and
\* the write callback is armed
C12_Witness ==
  /\ zclient.sock >= 0
  /\ Len(zclient.wb) = 1
  /\ ~WholeFrame(zclient.wb[1])
  /\ WriteArmed(zclient)

\* the drains open in the current state: the armed write callback of
\* either back-end
WriteAttempts ==
  (IF zclient.t_write THEN zclient_flush_data_t(Begin) ELSE {})
    \cup (IF "write" \in zclient.qf.modes
            THEN zclient_flush_data_r(Begin) ELSE {})

\* every operation that can pass bytes to the socket
WritingOperations ==
  SendingCalls \cup ConnectAttempts \cup ReadAttempts \cup WriteAttempts

\* C13: on a connection, what is passed to the socket is, byte for byte and
\* in order, the frames zclient_send_message accepted, as far as they are
\* written.  Step by step: a send that returns 0 leaves the bytes queued
\* before it and its frame equal to the bytes it wrote followed by the bytes
\* it leaves queued; a send that returns -1 wrote nothing and ended the
\* connection; every operation that keeps the connection (a handshake, a
\* drain by the write callback, a read and its handler) leaves the bytes
\* queued before it and the frames it sent equal to the bytes it wrote
\* followed by the bytes it leaves queued, and one that ends the connection
\* wrote a prefix of them; a read whose handler stops the handle drops the
\* bytes queued before it with the connection, and what it sends after that
\* it sends on a new connection; a drain sends no frame; nothing is queued
\* while there is no socket.
C13_OutboundFifo ==
  /\ zclient.sock < 0 => zclient.wb = << >>
  /\ \A p \in zclient_send_message([Begin EXCEPT !.obuf = CallerFrame])
              \cup zapi_ipv4_route(ZEBRA_IPV4_ROUTE_ADD, Begin,
                                   SomePrefix, SomeRoute) :
       zclient.sock >= 0 =>
         /\ Len(p[1].e.tx) = 1
         /\ p[2] = 0 =>
              /\ p[1].c = conn /\ p[1].z.sock = zclient.sock
              /\ Concat(zclient.wb) \o p[1].e.tx[1]
                   = p[1].e.out \o Concat(p[1].z.wb)
         /\ p[2] # 0 =>
              p[1].e.out = << >> /\ p[1].z.sock < 0 /\ p[1].z.wb = << >>
  /\ \A p \in WriteAttempts : p[1].e.tx = << >>
  /\ \A p \in WritingOperations :
       LET queued == IF StopsHandle(p[1]) THEN << >> ELSE Concat(zclient.wb)
           all    == queued \o Concat(p[1].e.tx)
       IN  IF p[1].z.sock >= 0
             THEN all = p[1].e.out \o Concat(p[1].z.wb)
             ELSE IsPrefix(p[1].e.out, all) /\ p[1].z.wb = << >>

\* the first frame of a handshake is written in part and its rest is
\* queued, with the frames sent after it queued behind it
C13_Witness ==
  /\ zclient.sock >= 0
  /\ Len(zclient.wb) >= 2
  /\ ~WholeFrame(zclient.wb[1])
  /\ \A i \in 2 .. Len(zclient.wb) : WholeFrame(zclient.wb[i])
  /\ WriteAttempts # {}

\* the handle is registered for read-readiness: the read mode of its
\* qps_file in the selection, or its read thread
ReadRegistered(z) ==
  IF zclient_nexus THEN z.qf.fd >= 0 /\ "read" \in z.qf.modes ELSE z.t_read

\* the lookup connects open in the current state
LookupAttempts ==
  (IF zclient.t_connect.fn = "zlookup_connect_t"
     THEN zlookup_connect_t(Begin) ELSE {})
    \cup (IF zclient.qtr.active /\ zclient.qtr.fn = "zlookup_connect_r"
            THEN zlookup_connect_r(Begin) ELSE {})

\* the embedder's calls that send nothing
QuietCalls ==
  { << zclient_stop(Begin), 0 >>, << zclient_reset(Begin), 0 >>,
    << zlookup_schedule(Begin), 0 >> }
    \cup (IF Stopped(zclient)
            THEN { << zclient_init(Begin, rd), 0 >> : rd \in 0 .. MaxRedistDefault }
            ELSE {})

\* every operation open in the current state
Operations == WritingOperations \cup LookupAttempts \cup QuietCalls

\* C14 as the spec states it: between callbacks the handle holds a socket
\* if and only if it is registered for read-readiness, whichever way it was
\* connected.
C14_SocketIffRead == (zclient.sock >= 0) <=> ReadRegistered(zclient)

\* C14, amended: between callbacks a handle registered for read-readiness
\* holds a socket; a connect by zclient_start that leaves a socket leaves it
\* registered for read-readiness; a connect through zlookup_schedule leaves
\* a socket that is not registered; and no operation that begins and ends
\* with a socket changes whether the handle is registered.  So a handle
\* connected by zclient_start is registered as long as it holds the socket,
\* and one connected through zlookup_schedule never is.
C14_ReadRegistration ==
  /\ ReadRegistered(zclient) => zclient.sock >= 0
  /\ \A p \in ConnectAttempts :
       p[1].e.res = "connected" /\ p[1].z.sock >= 0 => ReadRegistered(p[1].z)
  /\ \A p \in LookupAttempts :
       /\ p[1].e.res = "connected" =>
            p[1].z.sock >= 0 /\ ~ReadRegistered(p[1].z)
       /\ zclient.sock < 0 => p[1].e.res \in {"connected", "connect_failed"}
  /\ \A p \in Operations :
       zclient.sock >= 0 /\ p[1].z.sock >= 0 =>
         ReadRegistered(p[1].z) = ReadRegistered(zclient)

\* a handle connected through zlookup_schedule: it holds a socket and is
\* not registered for read-readiness
C14_Witness ==
  /\ zclient.sock >= 0
  /\ ~ReadRegistered(zclient)
  /\ zclient.enable

\* C15: while the write buffer is empty the handle is not armed for
\* write-readiness.  It holds in every state between callbacks, and at the
\* end of every operation: a send or a drain that empties the buffer leaves
\* the write arm removed, and so does a stop and every operation that ends
\* without a socket.
C15_WriteArmOnlyWhilePending ==
  /\ zclient.wb = << >> => ~WriteArmed(zclient)
  /\ \A p \in Operations :
       /\ p[1].z.wb = << >> => ~WriteArmed(p[1].z)
       /\ p[1].z.sock < 0 => p[1].z.wb = << >> /\ ~WriteArmed(p[1].z)
  /\ ~WriteArmed(zclient_stop(Begin).z)
  /\ ~WriteArmed(zclient_failed(Begin)[1].z)

\* the write callback is armed on queued bytes, and a drain that empties
\* the buffer and a send that empties it are both open
C15_Witness ==
  /\ zclient.sock >= 0
  /\ zclient.wb # << >>
  /\ WriteArmed(zclient)
  /\ \E p \in WriteAttempts : p[1].z.sock >= 0 /\ p[1].z.wb = << >>
  /\ \E p \in SendingCalls :
       p[1].e.tx # << >> /\ p[1].z.sock >= 0 /\ p[1].z.wb = << >>

\* the connect events armed on z, in either back-end
ConnectArms(z) ==
  (IF z.t_connect # NoThread THEN 1 ELSE 0) + (IF z.qtr.active THEN 1 ELSE 0)

\* C16: between callbacks the handle has at most one connect timer or
\* event outstanding, and arming ZCLIENT_SCHEDULE, ZLOOKUP_SCHEDULE or
\* ZCLIENT_CONNECT while one is armed changes nothing; it has at most one
\* read arm and at most one write arm outstanding; also after a read whose
\* handler called zclient_stop, zclient_reset or zclient_start.
C16_SingleArms ==
  /\ ConnectArms(zclient) <= 1
  /\ ConnectArms(zclient) = 1 =>
       \A event \in {"ZCLIENT_SCHEDULE", "ZLOOKUP_SCHEDULE", "ZCLIENT_CONNECT"} :
         zclient_event(event, Begin) = Begin
  /\ zclient.master_read <= 1
  /\ \A p \in ReadAttempts :
       /\ ConnectArms(p[1].z) <= 1
       /\ p[1].z.master_read <= 1

\* C17: the step to Failing.  Whatever the state, zclient_failed adds
\* exactly one to the failure counter, leaves no socket, no read arm, no
\* write arm, the streams and the write buffer empty, and arms the connect
\* retry of the back-off rule and no other connect event.  A read that
\* finds the peer gone or an error (0 or -1 from the socket), or a header
\* that breaks the framing, takes that step and returns -1, and so does a
\* drain whose write fails; a read that would block is no failure: it
\* leaves the handle as it was, the read armed again.
C17_FailingTransition ==
  /\ FailedFrom(zclient, zclient_failed(Begin)[1].z)
  /\ zclient_failed(Begin)[1].obuf = << >>
  /\ zclient_failed(Begin)[1].c = NoConn
  /\ \A p \in ReadAttempts :
       /\ p[1].e.res \in {"closed", "bad_header", "again", "dispatched"}
       /\ p[1].e.res \in {"closed", "bad_header"} =>
            /\ p[2] = -1
            /\ FailedFrom(zclient, p[1].z)
            /\ p[1].obuf = << >> /\ p[1].c = NoConn
            /\ p[1].e.handler = "" /\ p[1].e.tx = << >>
       /\ p[1].e.res = "again" =>
            /\ p[2] = 0
            /\ ReadArmed(p[1].z)
            /\ IsPrefix(zclient.ibuf, p[1].z.ibuf)
            /\ p[1].z = [zclient EXCEPT !.ibuf = p[1].z.ibuf, !.t_read = p[1].z.t_read,
                                        !.ibuf_size = p[1].z.ibuf_size]
       /\ p[1].e.res = "bad_header" => AtMalformed
  /\ zclient.sock >= 0 /\ ReadAttempts # {} =>
       /\ \E p \in ReadAttempts :
            p[1].e.res = "again" /\ p[1].z.ibuf = zclient.ibuf /\ p[1].c = conn
       /\ \E p \in ReadAttempts : p[1].e.res = "closed"
  /\ \A p \in WriteAttempts :
       zclient.sock >= 0 =>
         IF p[1].e.res = "flush_error"
           THEN FailedFrom(zclient, p[1].z) /\ p[1].c = NoConn
           ELSE p[1].z.fail = zclient.fail /\ p[1].z.sock = zclient.sock

\* a connection with bytes of a frame in the read stream and bytes queued
\* for writing, both callbacks armed: a read and a drain that fail are open
C17_Witness ==
  /\ zclient.sock >= 0
  /\ zclient.ibuf # << >>
  /\ zclient.wb # << >>
  /\ ReadArmed(zclient) /\ WriteArmed(zclient)
  /\ \E p \in ReadAttempts : p[1].e.res = "closed"
  /\ \E p \in WriteAttempts : p[1].e.res = "flush_error"

\* C18: zclient_stop, called in any state and whatever is in the output
\* stream, leaves no socket, no read arm, no write arm, no connect timer or
\* event (so no retry), the two streams and the write buffer empty, and the
\* failure counter, enable, redist, redist_default and default_information
\* as they were; of the read threads the master holds it removes the one
\* t_read points to; and a second zclient_stop changes nothing.
C18_StopPostcondition ==
  LET a == zclient_stop([Begin EXCEPT !.obuf = CallerFrame])
  IN  /\ a.z.sock < 0 /\ a.c = NoConn
      /\ ~a.z.t_read /\ ~a.z.t_write /\ a.z.qf = NoFile
      /\ a.z.t_connect = NoThread /\ a.z.qtr = NoTimer
      /\ RetryDelay(a.z) = -1
      /\ a.z.ibuf = << >> /\ a.obuf = << >> /\ a.z.wb = << >>
      /\ a.z.fail = zclient.fail /\ a.z.enable = zclient.enable
      /\ a.z.redist = zclient.redist
      /\ a.z.redist_default = zclient.redist_default
      /\ a.z.default_information = zclient.default_information
      /\ a.z.ibuf_size = zclient.ibuf_size
      /\ a.z.master_read =
           zclient.master_read - (IF zclient.t_read THEN 1 ELSE 0)
      /\ zclient_stop(a) = a

\* a connection with the read and the write armed, bytes of a frame in the
\* read stream and bytes queued for writing, after failures before it
C18_Witness ==
  /\ zclient.sock >= 0
  /\ ReadArmed(zclient) /\ WriteArmed(zclient)
  /\ zclient.ibuf # << >>
  /\ zclient.wb # << >>
  /\ zclient.enable
  /\ \E t \in RouteTypes : zclient.redist[t]

\* the bytes of a route frame from the nexthop count on, up to the distance
\* and the metric: the frame without the header, type, flags, message, safi
\* and prefix before them and without the distance and metric after them
NexthopSection(f, p, api) ==
  SubSeq(f, ZEBRA_HEADER_SIZE + 5 + 1 + PSIZE(p.prefixlen) + 1,
         Len(f) - (IF CHECK_FLAG(api.message, ZAPI_MESSAGE_DISTANCE) THEN 1 ELSE 0)
                - (IF CHECK_FLAG(api.message, ZAPI_MESSAGE_METRIC) THEN 4 ELSE 0))

\* C19: the frame zapi_ipv4_route hands to the write buffer for a route
\* with ZAPI_MESSAGE_NEXTHOP: with ZEBRA_FLAG_BLACKHOLE its nexthop section
\* is the count 1 and the type ZEBRA_NEXTHOP_BLACKHOLE and nothing else,
\* whatever nexthop_num and ifindex_num are; without it the section is the
\* count nexthop_num + ifindex_num and that many entries of five bytes.
\* The frame's length field is its length.
C19_BlackholeEncoding ==
  \A api \in Routes :
    \A p \in zapi_ipv4_route(ZEBRA_IPV4_ROUTE_ADD, Begin, SomePrefix, api) :
      (zclient.sock >= 0 /\ CHECK_FLAG(api.message, ZAPI_MESSAGE_NEXTHOP)) =>
        LET f       == p[1].e.tx[1]
            section == NexthopSection(f, SomePrefix, api)
            entries == Len(api.nexthop) + Len(api.ifindex)
        IN  /\ stream_getw_at(f, 0) = Len(f)
            /\ IF CHECK_FLAG(api.flags, ZEBRA_FLAG_BLACKHOLE)
                 THEN section = << 1, ZEBRA_NEXTHOP_BLACKHOLE >>
                 ELSE /\ section[1] = entries
                      /\ Len(section) = 1 + 5 * entries

\* the reader is at a well-formed frame longer than the size the read
\* stream is created with
AtOversized ==
  /\ Undispatched # << >>
  /\ IsWellFormed(Undispatched[1])
  /\ Undispatched[1].length > ZEBRA_MAX_PACKET_SIZ

\* C20: the read stream never holds more than its size, which is never
\* below ZEBRA_MAX_PACKET_SIZ.  At a well-formed frame longer than that
\* no read rejects the header: a read fails only when the socket gives 0 or
\* -1; a read that has the header leaves a stream of at least the frame's
\* length with the bytes read before still in it, followed by the bytes it
\* read; the frame arrives over as many reads as it takes, the
\* stream holding a prefix of the frame's bytes between them; and the read
\* that completes it dispatches it once, with its length less the header's,
\* to its handler if it has one.
C20_OversizedGrowth ==
  /\ Len(zclient.ibuf) <= zclient.ibuf_size
  /\ zclient.ibuf_size >= ZEBRA_MAX_PACKET_SIZ
  /\ \A p \in ReadAttempts :
       /\ Len(p[1].z.ibuf) <= p[1].z.ibuf_size
       /\ p[1].z.ibuf_size >= zclient.ibuf_size
  /\ AtOversized =>
       LET f     == Undispatched[1]
           bytes == Flatten(<< f >>)
       IN  /\ IsPrefix(zclient.ibuf, bytes)
           /\ \A p \in ReadAttempts :
                /\ p[1].e.res \in {"again", "dispatched", "closed"}
                /\ p[1].e.res = "again" =>
                     /\ p[2] = 0
                     /\ p[1].z.sock = zclient.sock /\ p[1].z.fail = zclient.fail
                     /\ IsPrefix(zclient.ibuf, p[1].z.ibuf)
                     /\ IsPrefix(p[1].z.ibuf, bytes)
                     /\ p[1].z.ibuf \o p[1].c.net_in = zclient.ibuf \o conn.net_in
                     /\ Len(p[1].z.ibuf) >= ZEBRA_HEADER_SIZE =>
                          p[1].z.ibuf_size >= f.length
                     /\ p[1].c.disp = conn.disp
                /\ p[1].e.res = "dispatched" =>
                     /\ (p[1].e.handler # "") = (f.command \in Handled)
                     /\ p[1].z.ibuf_size >= f.length
                     /\ KeepsConnection(p[1]) =>
                          /\ p[1].c.disp =
                               Append(conn.disp,
                                      << f.command, f.length - ZEBRA_HEADER_SIZE >>)
                          /\ p[1].z.fail = zclient.fail
           /\ Len(conn.net_in) >= Len(bytes) - Len(zclient.ibuf) =>
                \E p \in ReadAttempts : p[1].e.res = "dispatched"

\* a frame longer than the read stream's first size has arrived in part:
\* the stream has grown to the frame's length and holds the header and a
\* byte more, the rest is on its way
C20_Witness ==
  /\ zclient.sock >= 0
  /\ Undispatched # << >>
  /\ IsWellFormed(Undispatched[1])
  /\ Undispatched[1].length > ZEBRA_MAX_PACKET_SIZ
  /\ zclient.ibuf_size >= Undispatched[1].length
  /\ Len(zclient.ibuf) > ZEBRA_HEADER_SIZE
  /\ Len(zclient.ibuf) < Undispatched[1].length
  /\ conn.net_in # << >>
  /\ \E p \in ReadAttempts : p[1].e.res = "dispatched" /\ p[1].e.handler # ""

\* the handler the operation ran has ended the connection the frame came
\* on: it stopped the handle, or the frame it sent failed
ClosedByHandler(s) ==
  \/ StopsHandle(s)
  \/ s.e.handler = "zapi_ipv4_route" /\ s.z.sock < 0

\* C21: when the handler a read ran has closed the connection (it called
\* zclient_stop or zclient_reset, alone or before anything else, or a send
\* of its own failed), the read returns -1 behind it without resetting the
\* read stream or arming the read: the handle ends without a socket and
\* without a read arm, no read thread is left with the master by this read,
\* and after a zclient_reset in the handler the immediate connect event is
\* armed.
C21_ClosedInHandler ==
  \A p \in ReadAttempts :
    (p[1].e.res = "dispatched" /\ ClosedByHandler(p[1])) =>
      /\ p[2] = -1
      /\ p[1].z.sock < 0
      /\ ~ReadArmed(p[1].z)
      /\ p[1].z.ibuf = << >>
      /\ ~zclient_nexus => p[1].z.master_read = zclient.master_read - 1
      /\ p[1].e.handler = "zclient_reset" =>
           /\ ConnectArms(p[1].z) = 1
           /\ RetryDelay(p[1].z) = 0
      /\ p[1].e.handler = "zclient_stop" => ConnectArms(p[1].z) = 0
      /\ p[1].e.handler = "zapi_ipv4_route" =>
           FailedFrom(zclient, p[1].z)

\* C22: a connect attempt that gets its socket and then has a send of its
\* handshake fail ends Failing: the failure counter is 1, there is no socket,
\* no read arm and no write arm, the streams and the write buffer are empty
\* and the retry is armed at 10 s.  The failing frame is the last one it
\* passed to the write buffer: the frames passed are the first ones of the
\* handshake up to it, and the bytes written are bytes of the frames before
\* it, so that nothing of a later step goes to the write buffer or to a
\* socket.
C22_HandshakeStops ==
  \A p \in ConnectAttempts :
    (p[1].e.res = "connected" /\ p[1].z.sock < 0) =>
      LET sent == p[1].e.tx
      IN  /\ FailedFrom([zclient EXCEPT !.fail = 0], p[1].z)
          /\ p[1].z.fail = 1
          /\ RetryDelay(p[1].z) = 10
          /\ p[1].c = NoConn
          /\ Len(sent) >= 1
          /\ Len(sent) <= Len(Handshake(zclient))
          /\ Decoded(sent) = SubSeq(Handshake(zclient), 1, Len(sent))
          /\ IsPrefix(p[1].e.out, Concat(SubSeq(sent, 1, Len(sent) - 1)))

\* a connect attempt is armed on a handle whose handshake has all five
\* kinds of frame, and the attempt may fail at a step in its middle, with
\* bytes of the steps before it written
C22_Witness ==
  /\ zclient.sock < 0
  /\ zclient.redist_default # 0
  /\ zclient.default_information
  /\ Replayed(zclient) # {}
  /\ zclient.fail > 0
  /\ \E p \in ConnectAttempts :
       /\ p[1].e.res = "connected" /\ p[1].z.sock < 0
       /\ Len(p[1].e.tx) = 3
       /\ p[1].e.out # << >>

\* C23: the connect that zlookup_schedule has armed, when it runs, changes
\* nothing of the handle but the event it ran from, which is no longer
\* armed, and the socket: it passes no frame to the write buffer and writes
\* nothing, arms no read, no write and no retry, and leaves the failure
\* counter and redist as they are.  On a handle without a socket it makes
\* one connect, which gives it a socket or fails; on a handle with a socket
\* it leaves the socket and the connection as they are.
C23_LookupConnectOnly ==
  \A p \in LookupAttempts :
    /\ p[1].e.tx = << >> /\ p[1].e.out = << >> /\ p[1].e.handler = ""
    /\ p[1].z = [zclient EXCEPT !.sock = p[1].z.sock,
                                !.t_connect = NoThread, !.qtr = NoTimer]
    /\ ConnectArms(p[1].z) = 0
    /\ ReadArmed(p[1].z) = ReadArmed(zclient)
    /\ WriteArmed(p[1].z) = WriteArmed(zclient)
    /\ IF zclient.sock >= 0
         THEN /\ p[1].e.res = "not_attempted"
              /\ p[1].z.sock = zclient.sock
              /\ p[1].c = conn
         ELSE /\ p[1].e.res \in {"connected", "connect_failed"}
              /\ (p[1].e.res = "connected") = (p[1].z.sock >= 0)
              /\ ~ReadArmed(p[1].z) /\ ~WriteArmed(p[1].z)
    /\ zclient.sock < 0 => \E q \in LookupAttempts : q[1].z.sock < 0

\* the lookup connect is armed on a handle without a socket that has
\* failed before and holds subscriptions
C23_Witness ==
  /\ LookupAttempts # {}
  /\ zclient.sock < 0
  /\ zclient.fail > 0
  /\ zclient.enable
  /\ Replayed(zclient) # {}

\* the lookup connect is armed on a handle that has a socket and queued
\* bytes
C23_WitnessConnected ==
  /\ LookupAttempts # {}
  /\ zclient.sock >= 0
  /\ zclient.wb # << >>

\* the connect attempt armed on the handle of s, run from s
ConnectFrom(s) ==
  LET b == [s EXCEPT !.e = NoEv]
  IN  (IF b.z.t_connect.fn = "zclient_connect_t"
         THEN zclient_connect_t(b) ELSE {})
        \cup (IF b.z.qtr.active /\ b.z.qtr.fn = "zclient_connect_r"
                THEN zclient_connect_r(b) ELSE {})

\* what zclient_init and zclient_reset leave: s, with rd the default type
FreshlyInitialised(s, rd) ==
  /\ s.z.enable
  /\ s.z.sock < 0 /\ s.c = NoConn
  /\ s.z.fail = 0
  /\ s.z.redist = [t \in RouteTypes |-> t = rd]
  /\ ~s.z.default_information
  /\ s.z.redist_default = rd
  /\ ConnectArms(s.z) = 1
  /\ RetryDelay(s.z) = 0
  /\ ~ReadArmed(s.z) /\ ~WriteArmed(s.z)
  /\ s.z.wb = << >> /\ s.z.ibuf = << >>
  /\ s.e.tx = << >> /\ s.e.out = << >>
  /\ ConnectFrom(s) # {}
  /\ \A q \in ConnectFrom(s) :
       /\ IsPrefix(Decoded(q[1].e.tx),
                   (IF rd # 0 THEN << << ZEBRA_HELLO, rd >> >> ELSE << >>)
                     \o << << ZEBRA_ROUTER_ID_ADD, -1 >>,
                           << ZEBRA_INTERFACE_ADD, -1 >> >>)
       /\ \A i \in 1 .. Len(q[1].e.tx) : ~IsRedistributeAdd(q[1].e.tx[i])

\* C24: zclient_init on a new or stopped handle, with any default type, and
\* zclient_reset in any state, with the default type the handle had, leave
\* the handle enabled, without a socket, with a failure counter of zero,
\* redist set for the default type only, default_information off, and one
\* connect armed with no delay and nothing else; the connect that follows
\* sends the hello and the two standing subscriptions at most, and none of
\* the subscriptions held before.
C24_InitResetPostcondition ==
  /\ Stopped(zclient) =>
       \A rd \in 0 .. MaxRedistDefault :
         FreshlyInitialised(zclient_init(Begin, rd), rd)
  /\ FreshlyInitialised(zclient_reset(Begin), zclient.redist_default)

\* a reset of a connected handle that holds subscriptions, the default
\* subscription and queued bytes
C24_Witness ==
  /\ zclient.sock >= 0
  /\ Replayed(zclient) # {}
  /\ zclient.default_information
  /\ zclient.redist_default # 0
  /\ zclient.wb # << >>
  /\ WriteArmed(zclient)

\* an initialisation of a stopped handle that holds subscriptions and has
\* failed before
C24_WitnessInit ==
  /\ Stopped(zclient)
  /\ Replayed(zclient) # {}
  /\ zclient.fail > 0

\* the handle holds a connection that zclient_start made: the reader of the
\* back-end is registered on its socket
StartConnected(z) == z.sock >= 0 /\ ReadRegistered(z)

\* the operation with result p raised the failure counter
Counted(p) == p[1].z.fail > zclient.fail

\* C25 as the spec states it: a successful connect by zclient_start sets the
\* failure counter to zero; a failure on a connection zclient_start made
\* leaves the counter at 1 and the retry 10 s ahead; and the counter is
\* raised above 1, so to the 60 s tier and to the dormant state, by failed
\* connects only.
C25_ConnectFailuresOnly ==
  /\ \A p \in ConnectAttempts :
       p[1].e.res = "connected" =>
         p[1].z.fail = IF p[1].z.sock >= 0 THEN 0 ELSE 1
  /\ StartConnected(zclient) =>
       /\ zclient.fail = 0
       /\ \A p \in Operations :
            Counted(p) => p[1].z.fail = 1 /\ RetryDelay(p[1].z) = 10
  /\ \A p \in Operations :
       (Counted(p) /\ p[1].z.fail >= 2) => p[1].e.res = "connect_failed"

\* C25: a successful connect by zclient_start sets the failure counter to
\* zero, also when a send of its handshake fails, which leaves it at 1; a
\* failure on a connection zclient_start made leaves the counter at 1 and
\* the retry 10 s ahead; the counter is raised above 1 by a failed connect
\* of zclient_start, by a failure on a socket the lookup connect made, which
\* does not reset the counter, and by a read callback that runs on a handle
\* without a socket.
C25_FailCount ==
  /\ \A p \in ConnectAttempts :
       p[1].e.res = "connected" =>
         p[1].z.fail = IF p[1].z.sock >= 0 THEN 0 ELSE 1
  /\ StartConnected(zclient) =>
       /\ zclient.fail = 0
       /\ \A p \in Operations :
            Counted(p) => p[1].z.fail = 1 /\ RetryDelay(p[1].z) = 10
  /\ \A p \in Operations :
       (Counted(p) /\ p[1].z.fail >= 2) =>
         \/ p[1].e.res = "connect_failed"
         \/ zclient.sock >= 0 /\ ~ReadRegistered(zclient) /\ p[1].z.sock < 0
         \/ zclient.sock < 0 /\ p \in ReadAttempts

\* a handle that was never initialised, so that zclient_start has made no
\* connect for it, holds a socket of the lookup connect with the counter in
\* the 60 s tier, and a send on it fails
C25_Witness ==
  /\ ~zclient.enable
  /\ zclient.sock >= 0 /\ ~ReadRegistered(zclient)
  /\ zclient.fail >= 3
  /\ \E p \in SendingCalls : Counted(p) /\ p[1].e.res # "connect_failed"

\* a send fails on a connection zclient_start made for a handle that had
\* failed before
C25_WitnessStart ==
  /\ StartConnected(zclient)
  /\ \E p \in SendingCalls : Counted(p)
  /\ \E p \in ReadAttempts : Counted(p)

\* the handle is enabled, holds no socket and has failed fewer than ten
\* times
Waiting(z) == z.enable /\ z.sock < 0 /\ z.fail < 10

\* the connect of zclient_start is armed on z, once
ConnectPending(z) == ConnectArms(z) = 1 /\ RetryDelay(z) >= 0

\* C26 as the spec states it: between callbacks a handle that was
\* initialised and that no caller stopped, while it is enabled, holds no
\* socket and has failed fewer than ten times, has a connect armed; and
\* with the armed callbacks run in the end and a server that accepts in the
\* end, such a handle comes to hold a connection.
C26_EventuallyConnected ==
  /\ [](Waiting(zclient) => ConnectPending(zclient))
  /\ Waiting(zclient) ~> StartConnected(zclient)

\* C26: between callbacks a handle that was initialised and that no caller
\* stopped, while it is enabled, holds no socket and has failed fewer than
\* ten times, has a connect armed; and with the armed callbacks run in the
\* end and a server that accepts in the end, such a handle comes to hold a
\* connection or to its tenth failure, after which no connect is armed.
C26_NoSilentStall ==
  /\ [](Waiting(zclient) => ConnectPending(zclient))
  /\ [](zclient.enable /\ zclient.sock < 0 /\ zclient.fail >= 10
          => RetryDelay(zclient) < 0)
  /\ Waiting(zclient) ~> (StartConnected(zclient) \/ zclient.fail >= 10)

\* the handle waits in the 60 s tier with its ninth failure counted
C26_Witness ==
  /\ Waiting(zclient)
  /\ zclient.fail = 9
  /\ RetryDelay(zclient) = 60

\* the handle is dormant: enabled, without a socket, nothing armed
C26_WitnessDormant ==
  /\ zclient.enable /\ zclient.sock < 0 /\ zclient.fail >= 10
  /\ ConnectArms(zclient) = 0

\* the bytes of the frame the reader is at
CurrentFrame == Flatten(<< Undispatched[1] >>)

\* C27: the reader takes no byte beyond the frame it is at.  Between
\* callbacks the read stream holds fewer than six bytes, or a complete
\* header and fewer bytes than the header declares, and what it holds is the
\* beginning of the first frame not yet dispatched, the rest of that frame
\* and the frames after it being still on the way; a handle without a
\* socket holds none.  A read that keeps the connection takes bytes of that
\* one frame only and dispatches at most one frame: it either dispatches it
\* and leaves the read stream empty and every later byte on the way, or
\* leaves a longer beginning of it in the read stream, short of the header
\* or short of the declared length.
C27_OneFrameAtATime ==
  /\ zclient.sock < 0 => zclient.ibuf = << >>
  /\ Len(zclient.ibuf) >= ZEBRA_HEADER_SIZE =>
       Len(zclient.ibuf) < stream_getw_at(zclient.ibuf, 0)
  /\ zclient.ibuf # << >> =>
       /\ Undispatched # << >>
       /\ IsPrefix(zclient.ibuf, CurrentFrame)
  /\ zclient.sock >= 0 => zclient.ibuf \o conn.net_in = Flatten(Undispatched)
  /\ \A p \in ReadAttempts :
       KeepsConnection(p[1]) =>
         /\ zclient.sock >= 0
         /\ IF p[1].e.res = "dispatched"
              THEN /\ Len(p[1].c.disp) = Len(conn.disp) + 1
                   /\ p[1].z.ibuf = << >>
                   /\ zclient.ibuf \o conn.net_in = CurrentFrame \o p[1].c.net_in
              ELSE /\ p[1].c.disp = conn.disp
                   /\ p[1].z.ibuf \o p[1].c.net_in = zclient.ibuf \o conn.net_in
                   /\ IsPrefix(zclient.ibuf, p[1].z.ibuf)
                   /\ Undispatched # << >> =>
                        Len(p[1].z.ibuf) < Len(CurrentFrame)
                   /\ Len(p[1].z.ibuf) >= ZEBRA_HEADER_SIZE =>
                        Len(p[1].z.ibuf) < stream_getw_at(p[1].z.ibuf, 0)

\* the header of a frame is read in part while that frame and the one after
\* it are on the way, and a read can complete the frame
C27_Witness ==
  /\ zclient.sock >= 0
  /\ zclient.ibuf # << >> /\ Len(zclient.ibuf) < ZEBRA_HEADER_SIZE
  /\ Len(Undispatched) = 2
  /\ Len(conn.net_in) > Len(CurrentFrame) - Len(zclient.ibuf)
  /\ \E p \in ReadAttempts : p[1].e.res = "dispatched" /\ KeepsConnection(p[1])
  /\ \E p \in ReadAttempts :
       p[1].e.res = "again" /\ Len(p[1].z.ibuf) > ZEBRA_HEADER_SIZE

\* the write callback of the back-end is registered on the socket of z
WriteRegistered(z) ==
  IF zclient_nexus THEN z.qf.fd >= 0 /\ "write" \in z.qf.modes ELSE z.t_write

\* z holds a socket and bytes in its write buffer
Pending(z) == z.sock >= 0 /\ z.wb # << >>

\* C28: between callbacks a handle that holds a socket and bytes in its
\* write buffer has the write callback registered on the socket; and with
\* the write callback run in the end, the bytes a short write left are all
\* written or the handle gives up the socket, and the bytes with it.
C28_PendingOutputDrains ==
  /\ [](Pending(zclient) => WriteRegistered(zclient))
  /\ Pending(zclient) ~> ~Pending(zclient)

\* the same for the handles whose poll file is in the selection, and for
\* the thread back-end
C28_PendingOutputDrainsPolled ==
  /\ []((Pending(zclient) /\ (zclient_nexus => Polled))
          => WriteRegistered(zclient))
  /\ (Pending(zclient) /\ (zclient_nexus => Polled)) ~> ~Pending(zclient)

\* the lookup connect of the polling back-end has made the socket, and a
\* send on it left bytes in the write buffer
C28_Stranded ==
  /\ zclient_nexus
  /\ Pending(zclient)
  /\ ~Polled

=============================================================================
